---- MODULE Spec2Model ----
(***************************************************************************)
(* Figma-to-MJML conversion: the provider-fallback generation chain        *)
(* (lib/multi-ai.js, shipped inside src/lib/fallback-mjml.js), the         *)
(* rule-based synthesizer, and the convert-figma API handler.              *)
(*                                                                         *)
(* JavaScript objects are functions whose DOMAIN is the set of fields that *)
(* are present; an absent field stands for undefined/null.  JavaScript     *)
(* code between two awaits on real I/O runs to completion, so one action   *)
(* covers everything from one such await to the next.                      *)
(***************************************************************************)
EXTENDS Integers, Sequences, FiniteSets, TLC

VARIABLES
    entry,       \* who started the run: "direct" (a caller of generateMJMLWithFallback, as runDemo) or "figma" (the convert-figma handler)
    env,         \* process.env: the three provider API keys ("" = not set)
    layoutData,  \* { fileName, layouts }
    providers,   \* the ordered provider list handed to generateMJMLWithFallback
    pc,          \* position of the run
    i,           \* index of the provider the for-loop is at (1-based)
    errors,      \* generateMJMLWithFallback's local `errors` array
    attempts,    \* log: providers whose attempt was started, in order (the synthesizer included)
    httpCalls,   \* log: the HTTP requests issued, in order, each with its provider and the provider's index in the list
    net,         \* the HTTP request in flight: "idle", "pending", "hung", or "settled"
    result,      \* completion of generateMJMLWithFallback: pending / returned value / thrown error
    response,    \* the HTTP response of the convert-figma handler
    mjmlText,    \* the text handed to validateAndCorrectMJML
    validation,  \* what validateAndCorrectMJML returned for mjmlText
    mjmlCalls,   \* log: the invocations of the mjml compiler, in order, each with the text it was given
    settled,     \* log: what the HTTP requests settled to, in order
    responseText, \* the text of a provider's answer handed to extractMJMLFromResponse
    extracted,   \* what extractMJMLFromResponse returned for responseText
    image,       \* the upload of a convert-image request
    upload,      \* the temporary file of the upload: "none", "onDisk" or "deleted"
    imageRun     \* the convert-image handler's locals

extractVars == <<responseText, extracted>>
imageVars == <<image, upload, imageRun>>

vars == <<entry, env, layoutData, providers, pc, i, errors, attempts, httpCalls, net, result, response,
          mjmlText, validation, mjmlCalls, settled, responseText, extracted, image, upload, imageRun>>

(***************************************************************************)
(* Bounds                                                                  *)
(***************************************************************************)
MaxProviders == 2   \* longest provider list a direct caller passes (the default list is added)
MaxParts == 2       \* most fragments a text handed to the validator on its own is made of
MaxElems == 3       \* longest element list of a synthesized layout
MaxChunks == 2      \* most pieces a provider's answer is made of

(***************************************************************************)
(* JavaScript value helpers                                                *)
(***************************************************************************)
Has(o, f) == f \in DOMAIN o

\* o.f || d for a numeric field (undefined and 0 are falsy)
NumOr(o, f, d) == IF Has(o, f) /\ o[f] # 0 THEN o[f] ELSE d

\* o.f || d for a string field (undefined and '' are falsy)
StrOr(o, f, d) == IF Has(o, f) /\ o[f] # "" THEN o[f] ELSE d

\* `${o.f}` in a template literal
StrOf(o, f) == IF Has(o, f) THEN o[f] ELSE "undefined"
NumStrOf(o, f) == IF Has(o, f) THEN ToString(o[f]) ELSE "undefined"

\* the first n entries of s (Array.prototype.slice(0, n))
Slice0(s, n) == SubSeq(s, 1, IF Len(s) < n THEN Len(s) ELSE n)

\* Array.prototype.includes
Includes(s, v) == \E k \in 1..Len(s) : s[k] = v

RECURSIVE Join(_, _)
Join(s, sep) ==
    IF Len(s) = 0 THEN ""
    ELSE IF Len(s) = 1 THEN s[1]
    ELSE s[1] \o sep \o Join(Tail(s), sep)

Threw(msg) == [threw |-> TRUE, error |-> msg]
Value(v) == [threw |-> FALSE, value |-> v]

(***************************************************************************)
(* MJML documents: a sequence of tokens.  `origin` records which generator *)
(* produced the text (the code does not store it in the string).           *)
(***************************************************************************)
Open(tag, attrs) == [k |-> "open", tag |-> tag, attrs |-> attrs, text |-> ""]
Self(tag, attrs) == [k |-> "self", tag |-> tag, attrs |-> attrs, text |-> ""]
Close(tag) == [k |-> "close", tag |-> tag, attrs |-> <<>>, text |-> ""]
Txt(s) == [k |-> "text", tag |-> "", attrs |-> <<>>, text |-> s]
Doc(origin, tokens) == [origin |-> origin, tokens |-> tokens]

Px(n) == ToString(n) \o "px"

\* String.prototype.includes
StrIncludes(s, sub) ==
    \E k \in 1..(Len(s) - Len(sub) + 1) : SubSeq(s, k, k + Len(sub) - 1) = sub

(***************************************************************************)
(* The rule-based synthesizer ("enhanced fallback")                        *)
(***************************************************************************)

\* const { elements = [] } = layout
LayoutElements(layout) == IF Has(layout, "elements") THEN layout.elements ELSE <<>>

EmptyAnalysis(layout) ==
    [hasText |-> FALSE, hasImages |-> FALSE, hasButtons |-> FALSE,
     hasColoredSections |-> FALSE,
     textElements |-> <<>>, imageElements |-> <<>>, coloredElements |-> <<>>,
     layoutType |-> "unknown", primaryColors |-> <<>>,
     aspectRatio |-> IF NumOr(layout, "width", 0) # 0 /\ NumOr(layout, "height", 0) # 0
                     THEN <<layout.width, layout.height>> ELSE <<1, 1>>]

\* the body of elements.forEach(element => { switch (element.type) ... })
AnalyzeElement(a, element) ==
    IF element.type = "TEXT" THEN
        [a EXCEPT !.hasText = TRUE,
                  !.textElements = Append(@,
                      [text |-> StrOr(element, "text", "Sample Text"),
                       fontSize |-> NumOr(element, "fontSize", 16),
                       color |-> StrOr(element, "textColor", "#333333"),
                       weight |-> NumOr(element, "fontWeight", 400)])]
    ELSE IF element.type \in {"RECTANGLE", "FRAME"} THEN
        IF Has(element, "hasImage") /\ element.hasImage THEN
            [a EXCEPT !.hasImages = TRUE, !.imageElements = Append(@, element)]
        ELSE IF StrOr(element, "backgroundColor", "") # ""
                /\ element.backgroundColor # "transparent" THEN
            [a EXCEPT !.hasColoredSections = TRUE,
                      !.coloredElements = Append(@, element),
                      !.primaryColors = IF Includes(@, element.backgroundColor)
                                        THEN @ ELSE Append(@, element.backgroundColor)]
        ELSE a
    ELSE a

RECURSIVE AnalyzeFrom(_, _, _)
AnalyzeFrom(a, elements, k) ==
    IF k > Len(elements) THEN a
    ELSE AnalyzeFrom(AnalyzeElement(a, elements[k]), elements, k + 1)

\* mutant: the text-focused test is made before the rich-content test
ClassifyLayoutTextFirst(a) ==
    IF a.hasText /\ a.hasColoredSections THEN "text-focused"
    ELSE IF a.hasText /\ a.hasImages /\ a.hasColoredSections THEN "rich-content"
    ELSE IF a.hasImages THEN "image-focused"
    ELSE "minimal"

\* the if / else-if chain that determines layoutType
ClassifyLayout(a) ==
    IF a.hasText /\ a.hasImages /\ a.hasColoredSections THEN "rich-content"
    ELSE IF a.hasText /\ a.hasColoredSections THEN "text-focused"
    ELSE IF a.hasImages THEN "image-focused"
    ELSE "minimal"

analyzeLayoutElements(layout) ==
    LET a == AnalyzeFrom(EmptyAnalysis(layout), LayoutElements(layout), 1)
    IN  [a EXCEPT !.layoutType = ClassifyLayout(a)]

getContrastColor(bgColor) ==
    IF bgColor # "" /\ (StrIncludes(bgColor, "rgb(0, 0, 0)") \/ StrIncludes(bgColor, "#000")
                        \/ bgColor = "black")
    THEN "white" ELSE "#333333"

\* the <mj-text> blocks of the first three text elements, each followed by a
\* spacer unless it is the last entry of textElements
RECURSIVE TextBlocks(_, _)
TextBlocks(textElements, index) ==
    IF index > Len(Slice0(textElements, 3)) THEN <<>>
    ELSE LET textEl == textElements[index] IN
         <<Open("mj-text", <<<<"font-size", Px(textEl.fontSize)>>,
                             <<"color", textEl.color>>,
                             <<"font-weight", IF textEl.weight > 500 THEN "600" ELSE "400">>>>),
           Txt(textEl.text), Close("mj-text")>>
         \o (IF index - 1 < Len(textElements) - 1
             THEN <<Self("mj-spacer", <<<<"height", "15px">>>>)>> ELSE <<>>)
         \o TextBlocks(textElements, index + 1)

generateIntelligentMJML(analysis, fileName, layout) ==
    LET name == StrOf(layout, "name")
        primaryColor == IF Len(analysis.primaryColors) > 0 /\ analysis.primaryColors[1] # ""
                        THEN analysis.primaryColors[1] ELSE "#007bff"
        textColor == getContrastColor(primaryColor)
        head ==
            <<Open("mjml", <<>>), Open("mj-head", <<>>),
              Open("mj-title", <<>>), Txt(fileName \o " - " \o name), Close("mj-title"),
              Open("mj-preview", <<>>),
              Txt("Intelligent email template generated from " \o name), Close("mj-preview"),
              Open("mj-attributes", <<>>),
              Self("mj-all", <<<<"font-family", "'Poppins', Arial, sans-serif">>>>),
              Self("mj-text", <<<<"font-size", "14px">>, <<"color", "#333333">>,
                                <<"line-height", "1.6">>>>),
              Self("mj-section", <<<<"background-color", "#ffffff">>, <<"padding", "20px">>>>),
              Close("mj-attributes"),
              Open("mj-style", <<<<"inline", "inline">>>>),
              Txt(".header { background-color: " \o primaryColor \o "; } .rounded { border-radius: 8px; }"),
              Close("mj-style"),
              Close("mj-head"), Open("mj-body", <<>>)>>
        header ==
            <<Open("mj-section", <<<<"css-class", "header">>, <<"padding", "30px 20px">>>>),
              Open("mj-column", <<>>),
              Open("mj-text", <<<<"align", "center">>, <<"font-size", "28px">>,
                                <<"font-weight", "600">>, <<"color", textColor>>>>),
              Txt(StrOr(layout, "name", "Your Email Template")), Close("mj-text")>>
            \o (IF analysis.layoutType = "rich-content"
                THEN <<Open("mj-text", <<<<"align", "center">>, <<"font-size", "16px">>,
                                         <<"color", textColor>>, <<"padding-top", "10px">>>>),
                       Txt("Rich content email with " \o ToString(Len(analysis.textElements))
                           \o " text sections"),
                       Close("mj-text")>>
                ELSE <<>>)
            \o <<Close("mj-column"), Close("mj-section")>>
        content ==
            <<Open("mj-section", <<<<"padding", "40px 20px">>>>), Open("mj-column", <<>>)>>
            \o (IF analysis.hasText /\ Len(analysis.textElements) > 0
                THEN TextBlocks(analysis.textElements, 1) ELSE <<>>)
            \o (IF analysis.hasColoredSections
                THEN <<Self("mj-spacer", <<<<"height", "30px">>>>),
                       Open("mj-text", <<<<"css-class", "rounded">>>>),
                       Txt("Design Elements Found: " \o ToString(Len(analysis.coloredElements))
                           \o " colored sections; Primary colors: "
                           \o Join(Slice0(analysis.primaryColors, 2), ", ")
                           \o "; Layout type: " \o analysis.layoutType),
                       Close("mj-text")>>
                ELSE <<>>)
            \o (IF analysis.hasImages
                THEN <<Self("mj-spacer", <<<<"height", "20px">>>>),
                       Self("mj-image",
                            <<<<"src", "https://via.placeholder.com/600x300/f8f9fa/333333?text=Image+Placeholder">>,
                              <<"alt", "Content Image">>, <<"width", "100%">>>>)>>
                ELSE <<>>)
            \o <<Self("mj-spacer", <<<<"height", "30px">>>>),
                 Open("mj-button", <<<<"background-color", primaryColor>>, <<"color", textColor>>,
                                     <<"border-radius", "6px">>, <<"font-weight", "500">>,
                                     <<"padding", "12px 30px">>>>),
                 Txt("Get Started"), Close("mj-button"),
                 Self("mj-spacer", <<<<"height", "20px">>>>),
                 Open("mj-text", <<<<"align", "center">>, <<"font-size", "12px">>,
                                   <<"color", "#666666">>>>),
                 Txt("Template Info: Generated from " \o fileName \o " ("
                     \o NumStrOf(layout, "width") \o "x" \o NumStrOf(layout, "height")
                     \o "px) Layout type: " \o analysis.layoutType \o " | Elements: "
                     \o ToString(Len(LayoutElements(layout)))),
                 Close("mj-text"),
                 Close("mj-column"), Close("mj-section")>>
        footer ==
            <<Open("mj-section", <<<<"padding", "10px 20px">>>>), Open("mj-column", <<>>),
              Self("mj-divider", <<<<"border-color", "#e9ecef">>>>),
              Close("mj-column"), Close("mj-section"),
              Open("mj-section", <<<<"padding", "20px">>>>), Open("mj-column", <<>>),
              Open("mj-text", <<<<"align", "center">>, <<"font-size", "12px">>,
                                <<"color", "#999999">>>>),
              Txt("Generated with Intelligent Fallback System"), Close("mj-text"),
              Close("mj-column"), Close("mj-section"),
              Close("mj-body"), Close("mjml")>>
    IN  Doc("enhanced-fallback", head \o header \o content \o footer)

\* mutant: the element list is read without the `= []` default, so a layout
\* that has no elements field throws
generateEnhancedFallbackMJMLNoDefault(ld) ==
    IF ~Has(ld, "layouts") \/ Len(ld.layouts) = 0
    THEN Threw("TypeError: Cannot destructure property 'elements' of 'layout' as it is undefined.")
    ELSE IF ~Has(ld.layouts[1], "elements")
    THEN Threw("TypeError: Cannot read properties of undefined (reading 'forEach')")
    ELSE LET primaryLayout == ld.layouts[1]
             analysis == analyzeLayoutElements(primaryLayout)
             mjml == generateIntelligentMJML(analysis, ld.fileName, primaryLayout)
         IN  Value([success |-> TRUE, mjml |-> mjml, aiUsed |-> FALSE,
                    analysis |-> analysis, model |-> "intelligent-fallback"])

\* layouts[0] of undefined or of an empty list is undefined, and destructuring
\* undefined in analyzeLayoutElements throws a TypeError
generateEnhancedFallbackMJML(ld) ==
    IF ~Has(ld, "layouts") \/ Len(ld.layouts) = 0
    THEN Threw("TypeError: Cannot destructure property 'elements' of 'layout' as it is undefined.")
    ELSE LET primaryLayout == ld.layouts[1]
             analysis == analyzeLayoutElements(primaryLayout)
             mjml == generateIntelligentMJML(analysis, ld.fileName, primaryLayout)
         IN  Value([success |-> TRUE, mjml |-> mjml, aiUsed |-> FALSE,
                    analysis |-> analysis, model |-> "intelligent-fallback"])

(***************************************************************************)
(* The basic fallback (generateFallbackMJML)                               *)
(***************************************************************************)

\* a.bounds.y - b.bounds.y, or 0 when either element has no bounds
CompareByY(a, b) ==
    IF ~Has(a, "bounds") \/ ~Has(b, "bounds") THEN 0 ELSE a.bounds.y - b.bounds.y

\* insert e into the sorted list s after every entry that does not compare
\* greater than it (Array.prototype.sort is stable)
RECURSIVE InsertSorted(_, _)
InsertSorted(s, e) ==
    IF Len(s) = 0 THEN <<e>>
    ELSE IF CompareByY(s[Len(s)], e) > 0
         THEN Append(InsertSorted(SubSeq(s, 1, Len(s) - 1), e), s[Len(s)])
         ELSE Append(s, e)

RECURSIVE SortByY(_)
SortByY(s) ==
    IF Len(s) = 0 THEN <<>>
    ELSE InsertSorted(SortByY(SubSeq(s, 1, Len(s) - 1)), s[Len(s)])

\* elements.filter(el => el.visible !== false)
VisibleElements(elements) ==
    SelectSeq(elements, LAMBDA el : ~(Has(el, "visible") /\ el.visible = FALSE))

generateTextElement(element) ==
    <<Open("mj-text", <<<<"font-size", Px(NumOr(element, "fontSize", 14))>>,
                        <<"color", StrOr(element, "textColor", "#333333")>>,
                        <<"font-weight", IF NumOr(element, "fontWeight", 0) > 500
                                         THEN "bold" ELSE "normal">>>>),
      Txt(StrOr(element, "text", "Text content")), Close("mj-text")>>

generateImageElement(element) ==
    <<Self("mj-image",
           <<<<"width", IF Has(element, "bounds") THEN Px(element.bounds.width) ELSE "100%">>,
             <<"alt", "Image: " \o StrOr(element, "name", "Untitled")>>,
             <<"src", "https://via.placeholder.com/"
                      \o ToString(IF Has(element, "bounds") THEN NumOr(element.bounds, "width", 600) ELSE 600)
                      \o "x"
                      \o ToString(IF Has(element, "bounds") THEN NumOr(element.bounds, "height", 300) ELSE 300)
                      \o "/f8f9fa/333333?text=Image+Placeholder">>>>)>>

generateBoxElement(element) ==
    LET bgColor == StrOr(element, "backgroundColor", "transparent")
        height == IF Has(element, "bounds") THEN NumOr(element.bounds, "height", 50) ELSE 50
    IN  IF bgColor # "transparent" /\ bgColor # "rgba(0, 0, 0, 0)"
        THEN <<Self("mj-divider", <<<<"border-color", bgColor>>,
                                    <<"border-width", Px(IF height > 2 THEN height ELSE 2)>>,
                                    <<"padding", "5px 0">>>>)>>
        ELSE <<Self("mj-spacer", <<<<"height", Px(height)>>>>)>>

\* the body of sortedElements.forEach((element, index) => ...)
RECURSIVE RenderElements(_, _)
RenderElements(sortedElements, index) ==
    IF index > Len(sortedElements) THEN <<>>
    ELSE LET element == sortedElements[index] IN
         (IF element.type = "TEXT" THEN generateTextElement(element)
          ELSE IF element.type \in {"RECTANGLE", "FRAME"} THEN
              IF Has(element, "hasImage") /\ element.hasImage
              THEN generateImageElement(element) ELSE generateBoxElement(element)
          ELSE <<Open("mj-text", <<<<"font-size", "14px">>, <<"color", "#666666">>>>),
                 Txt("[" \o element.type \o ": " \o StrOf(element, "name") \o "]"),
                 Close("mj-text")>>)
         \o (IF index - 1 < Len(sortedElements) - 1
             THEN <<Self("mj-spacer", <<<<"height", "15px">>>>)>> ELSE <<>>)
         \o RenderElements(sortedElements, index + 1)

generateElementsFromLayout(elements) ==
    RenderElements(SortByY(VisibleElements(elements)), 1)

generateLayoutBasedMJML(layout, fileName) ==
    LET name == StrOf(layout, "name")
        width == NumOr(layout, "width", 0)
    IN  Doc("basic-fallback",
          <<Open("mjml", <<>>), Open("mj-head", <<>>),
            Open("mj-title", <<>>), Txt(fileName \o " - " \o name), Close("mj-title"),
            Open("mj-preview", <<>>), Txt("Email template generated from " \o name),
            Close("mj-preview"),
            Open("mj-attributes", <<>>),
            Self("mj-all", <<<<"font-family", "'Poppins', Arial, sans-serif">>>>),
            Self("mj-text", <<<<"font-size", "14px">>, <<"color", "#333333">>,
                              <<"line-height", "1.6">>>>),
            Self("mj-section", <<<<"background-color", StrOr(layout, "backgroundColor", "#ffffff")>>,
                                 <<"padding", "20px">>>>),
            Close("mj-attributes"),
            Open("mj-style", <<<<"inline", "inline">>>>),
            Txt(".frame-width { max-width: " \o Px(IF width < 600 THEN width ELSE 600) \o "; }"),
            Close("mj-style"),
            Close("mj-head"), Open("mj-body", <<>>),
            Open("mj-section", <<<<"css-class", "frame-width">>, <<"padding", "20px">>>>),
            Open("mj-column", <<>>)>>
          \o (IF Has(layout, "elements") /\ Len(layout.elements) > 0
              THEN generateElementsFromLayout(layout.elements)
              ELSE <<Open("mj-text", <<<<"font-size", "18px">>, <<"font-weight", "500">>>>),
                     Txt("Content from " \o name), Close("mj-text"),
                     Self("mj-spacer", <<<<"height", "20px">>>>),
                     Open("mj-text", <<>>),
                     Txt("This section was generated from your Figma frame. Please customize this template with your actual content."),
                     Close("mj-text")>>)
          \o <<Close("mj-column"), Close("mj-section"), Close("mj-body"), Close("mjml")>>)

generateEmptyTemplate(fileName) ==
    Doc("basic-fallback",
        <<Open("mjml", <<>>), Open("mj-head", <<>>),
          Open("mj-title", <<>>), Txt(fileName \o " - Email Template"), Close("mj-title"),
          Close("mj-head"), Open("mj-body", <<>>),
          Open("mj-section", <<<<"css-class", "bg-light">>, <<"padding", "30px 20px">>>>),
          Open("mj-column", <<>>),
          Open("mj-text", <<<<"align", "center">>, <<"font-size", "28px">>,
                            <<"font-weight", "600">>, <<"css-class", "primary-color">>>>),
          Txt("Welcome to Your Email"), Close("mj-text"),
          Close("mj-column"), Close("mj-section"), Close("mj-body"), Close("mjml")>>)

generateFallbackMJML(ld) ==
    IF ~Has(ld, "layouts") \/ Len(ld.layouts) = 0
    THEN generateEmptyTemplate(IF Has(ld, "fileName") THEN ld.fileName ELSE "Untitled")
    ELSE generateLayoutBasedMJML(ld.layouts[1], ld.fileName)

(***************************************************************************)
(* Provider adapters.  An adapter runs up to its fetch (…Start), and is    *)
(* resumed with the settled response (…Resume).                            *)
(***************************************************************************)
AI_PROVIDERS == {"openai", "huggingface", "cohere", "together", "groq"}

AwaitFetch(url) == [threw |-> FALSE, fetch |-> url]

\* what an HTTP request to a provider can settle to
Responses ==
    {[kind |-> "ok", status |-> 200],
     [kind |-> "ok_nested", status |-> 200],         \* 2xx, the document nests a section in a column
     [kind |-> "malformed", status |-> 200],         \* 2xx, body without the expected fields
     [kind |-> "http_error_json", status |-> 429],   \* non-2xx, JSON error body
     [kind |-> "http_error_nojson", status |-> 500], \* non-2xx, body that is not JSON
     [kind |-> "network_error", status |-> 0]}       \* fetch rejects

\* the document text an answering provider returns
AIContent ==
    <<Open("mjml", <<>>), Open("mj-body", <<>>), Open("mj-section", <<>>),
      Open("mj-column", <<>>), Open("mj-text", <<>>), Txt("AI generated"), Close("mj-text"),
      Close("mj-column"), Close("mj-section"), Close("mj-body"), Close("mjml")>>

\* a document of an answering provider that opens an mj-section inside an
\* mj-column and puts border-radius on mj-text
AINestedContent ==
    <<Open("mjml", <<>>), Open("mj-body", <<>>), Open("mj-section", <<>>),
      Open("mj-column", <<>>), Open("mj-section", <<>>),
      Open("mj-text", <<<<"border-radius", "8px">>>>), Txt("AI generated"), Close("mj-text"),
      Close("mj-section"), Close("mj-column"), Close("mj-section"),
      Close("mj-body"), Close("mjml")>>

\* the part of an adapter after its fetch: the !response.ok branch, the
\* parsing of the body and the returned record
AdapterResume(label, provider, model, resp) ==
    IF resp.kind = "network_error" THEN Threw("TypeError: fetch failed")
    ELSE IF resp.kind = "http_error_nojson" THEN Threw("SyntaxError: Unexpected token in JSON")
    ELSE IF resp.kind = "http_error_json"
         THEN Threw(label \o " API error: " \o ToString(resp.status) \o " - upstream error")
    ELSE IF resp.kind = "malformed"
         THEN Threw("TypeError: Cannot read properties of undefined")
    ELSE Value([success |-> TRUE,
                mjml |-> Doc(provider, IF resp.kind = "ok_nested" THEN AINestedContent ELSE AIContent),
                model |-> model])

generateWithOpenAIStart(e) ==
    IF e.OPENAI_API_KEY = "" THEN Threw("OpenAI API key not found")
    ELSE AwaitFetch("https://api.openai.com/v1/chat/completions")

generateWithOpenAIResume(resp) == AdapterResume("OpenAI", "openai", "gpt-3.5-turbo", resp)

generateWithCohereStart(e) ==
    IF e.COHERE_API_KEY = "" \/ e.COHERE_API_KEY = "demo-key"
    THEN Threw("Cohere API key required. Get free key at cohere.com")
    ELSE AwaitFetch("https://api.cohere.com/v1/chat")

generateWithCohereResume(resp) == AdapterResume("Cohere", "cohere", "command-r-plus", resp)

\* mutant: the request is sent before the key is looked at
generateWithGroqStartFetchFirst(e) ==
    AwaitFetch("https://api.groq.com/openai/v1/chat/completions")

generateWithGroqStart(e) ==
    IF e.GROQ_API_KEY = "" THEN Threw("Groq API key required. Get free key at console.groq.com")
    ELSE AwaitFetch("https://api.groq.com/openai/v1/chat/completions")

generateWithGroqResume(resp) == AdapterResume("Groq", "groq", "llama3-8b-8192", resp)

\* generateWithProvider up to the adapter's fetch.  generateWithHuggingFace and
\* generateWithTogether are called but defined nowhere: a ReferenceError.
generateWithProviderStart(providerKey, e) ==
    IF providerKey \notin AI_PROVIDERS THEN Threw("Unknown provider: " \o providerKey)
    ELSE IF providerKey = "openai" THEN generateWithOpenAIStart(e)
    ELSE IF providerKey = "cohere" THEN generateWithCohereStart(e)
    ELSE IF providerKey = "huggingface"
         THEN Threw("ReferenceError: generateWithHuggingFace is not defined")
    ELSE IF providerKey = "together"
         THEN Threw("ReferenceError: generateWithTogether is not defined")
    ELSE generateWithGroqStart(e)

generateWithProviderResume(providerKey, resp) ==
    IF providerKey = "openai" THEN generateWithOpenAIResume(resp)
    ELSE IF providerKey = "cohere" THEN generateWithCohereResume(resp)
    ELSE generateWithGroqResume(resp)

(***************************************************************************)
(* generateMJMLWithFallback.  The run of the function is the record        *)
(* [pc, i, errors, attempts, httpCalls, result].                           *)
(***************************************************************************)
Pending == [state |-> "pending"]
Returned(v) == [state |-> "returned", value |-> v]
Thrown(msg) == [state |-> "threw", error |-> msg]

StartRun == [pc |-> "loop", i |-> 1, errors |-> <<>>, attempts |-> <<>>,
             httpCalls |-> <<>>, result |-> Pending]

\* mutant: the catch block logs the failure and records nothing
RecordFailureLogOnly(errs, provider, msg) == errs

\* catch (error) { errors.push({ provider, error: error.message }) }
RecordFailure(errs, provider, msg) == Append(errs, [provider |-> provider, error |-> msg])

\* return { ...result, provider, usedFallback: false } when result.success
ProviderSuccess(st, provider, value) ==
    [st EXCEPT !.pc = "returned",
               !.result = Returned([provider |-> provider, usedFallback |-> FALSE] @@ value)]

\* mutant: the orchestrator gives up with an error when the list is exhausted
AllProvidersFailedThrows(st, ld) ==
    [st EXCEPT !.pc = "threw", !.result = Thrown("All AI providers failed")]

\* after the loop: the synthesizer is called outside of any try block
AllProvidersFailed(st, ld) ==
    LET fallbackResult == generateEnhancedFallbackMJML(ld)
        st1 == [st EXCEPT !.attempts = Append(@, "enhanced-fallback")]
    IN  IF fallbackResult.threw
        THEN [st1 EXCEPT !.pc = "threw", !.result = Thrown(fallbackResult.error)]
        ELSE [st1 EXCEPT !.pc = "returned",
                         !.result = Returned([provider |-> "enhanced-fallback",
                                              usedFallback |-> TRUE,
                                              aiErrors |-> st.errors] @@ fallbackResult.value)]

\* the for-loop from provider st.i on, up to the next fetch or to completion
RECURSIVE RunLoop(_, _, _, _)
RunLoop(st, ld, e, provs) ==
    IF st.i > Len(provs) THEN AllProvidersFailed(st, ld)
    ELSE
        LET provider == provs[st.i]
            st1 == [st EXCEPT !.attempts = Append(@, provider)]
        IN  IF provider = "enhanced-fallback" THEN
                LET r == generateEnhancedFallbackMJML(ld) IN
                IF r.threw
                THEN RunLoop([st1 EXCEPT !.errors = RecordFailure(@, provider, r.error),
                                         !.i = @ + 1], ld, e, provs)
                ELSE [st1 EXCEPT !.pc = "returned",
                                 !.result = Returned([provider |-> "enhanced-fallback",
                                                      usedFallback |-> TRUE] @@ r.value)]
            ELSE
                LET r == generateWithProviderStart(provider, e) IN
                IF r.threw
                THEN RunLoop([st1 EXCEPT !.errors = RecordFailure(@, provider, r.error),
                                         !.i = @ + 1], ld, e, provs)
                ELSE [st1 EXCEPT !.pc = "awaitFetch",
                                 !.httpCalls = Append(@, [provider |-> provider, index |-> st.i])]

\* mutant: a success does not end the loop; the later providers are still tried
\* and the first success is returned once the list is exhausted
ResumeLoopKeepsGoing(st, ld, e, provs, resp) ==
    LET provider == provs[st.i]
        r == generateWithProviderResume(provider, resp)
    IN  IF r.threw
        THEN RunLoop([st EXCEPT !.errors = RecordFailure(@, provider, r.error), !.i = @ + 1],
                     ld, e, provs)
        ELSE LET rest == RunLoop([st EXCEPT !.i = @ + 1], ld, e, provs) IN
             IF rest.pc = "awaitFetch" THEN rest
             ELSE [ProviderSuccess(st, provider, r.value) EXCEPT
                       !.attempts = rest.attempts, !.httpCalls = rest.httpCalls]

\* mutant: a failed request is sent once more to the same provider before the
\* failure is recorded
ResumeLoopRetries(st, ld, e, provs, resp) ==
    LET provider == provs[st.i]
        r == generateWithProviderResume(provider, resp)
    IN  IF r.threw /\ Len(st.httpCalls) < 2
        THEN [st EXCEPT !.httpCalls = Append(@, [provider |-> provider, index |-> st.i])]
        ELSE IF r.threw
        THEN RunLoop([st EXCEPT !.errors = RecordFailure(@, provider, r.error), !.i = @ + 1],
                     ld, e, provs)
        ELSE ProviderSuccess(st, provider, r.value)

\* the loop resumed when the fetch of provider provs[st.i] has settled
ResumeLoop(st, ld, e, provs, resp) ==
    LET provider == provs[st.i]
        r == generateWithProviderResume(provider, resp)
    IN  IF r.threw
        THEN RunLoop([st EXCEPT !.errors = RecordFailure(@, provider, r.error), !.i = @ + 1],
                     ld, e, provs)
        ELSE IF r.value.success THEN ProviderSuccess(st, provider, r.value)
        ELSE RunLoop([st EXCEPT !.i = @ + 1], ld, e, provs)

(***************************************************************************)
(* MJML text.  A text is held as the sequence of its tags and text runs,   *)
(* in order; its characters are those of the entries, one after another.   *)
(* A tag entry runs from '<' to its first '>', and a text run holds no     *)
(* '<'.  The regular expressions of the validator are matched character by *)
(* character inside an entry.                                              *)
(***************************************************************************)
CharAt(s, k) == SubSeq(s, k, k)

StartsWithAt(s, k, lit) ==
    k >= 1 /\ k + Len(lit) - 1 <= Len(s) /\ SubSeq(s, k, k + Len(lit) - 1) = lit

MinOf(S) == CHOOSE k \in S : \A j \in S : k <= j

\* String.prototype.indexOf(lit, from), 1-based; 0 when lit does not occur
IndexFrom(s, lit, from) ==
    LET ks == {k \in from..(Len(s) - Len(lit) + 1) : StartsWithAt(s, k, lit)}
    IN  IF ks = {} THEN 0 ELSE MinOf(ks)

\* \s and \d
Whitespace == {" ", "\t"}
Digits == {"0", "1", "2", "3", "4", "5", "6", "7", "8", "9"}

\* the last position of the longest run of characters of cls that starts at k
\* (k - 1 when the character at k is not of cls)
RECURSIVE RunEnd(_, _, _)
RunEnd(s, k, cls) ==
    IF k <= Len(s) /\ CharAt(s, k) \in cls THEN RunEnd(s, k + 1, cls) ELSE k - 1

RECURSIVE Concat(_)
Concat(ss) == IF Len(ss) = 0 THEN <<>> ELSE ss[1] \o Concat(Tail(ss))

\* the attributes of a tag as the template literals write them
RECURSIVE AttrText(_)
AttrText(attrs) ==
    IF Len(attrs) = 0 THEN ""
    ELSE " " \o attrs[1][1] \o "=\"" \o attrs[1][2] \o "\"" \o AttrText(Tail(attrs))

TokenText(t) ==
    IF t.k = "open" THEN "<" \o t.tag \o AttrText(t.attrs) \o ">"
    ELSE IF t.k = "self" THEN "<" \o t.tag \o AttrText(t.attrs) \o " />"
    ELSE IF t.k = "close" THEN "</" \o t.tag \o ">"
    ELSE t.text

\* the string a generator returns for a document
DocText(doc) == [k \in 1..Len(doc.tokens) |-> TokenText(doc.tokens[k])]

(***************************************************************************)
(* validateAndCorrectMJML (lib/mjml-validator.js)                          *)
(***************************************************************************)

\* /<mj-text([^>]*?)\s+border-radius="([^"]*?)"([^>]*?)>/g on one entry: the
\* lazy `before` stops at the first whitespace run that is followed by
\* border-radius="; the match ends at the '>' of the tag, so one attribute is
\* removed per tag
RemoveBorderRadius(seg) ==
    LET gt == IndexFrom(seg, ">", 9)
        ks == {k \in 10..Len(seg) :
                  /\ StartsWithAt(seg, k, "border-radius=\"")
                  /\ CharAt(seg, k - 1) \in Whitespace
                  /\ IndexFrom(seg, "\"", k + 15) # 0
                  /\ IndexFrom(seg, "\"", k + 15) < gt}
    IN  IF ~StartsWithAt(seg, 1, "<mj-text") \/ ks = {}
        THEN [text |-> seg, warnings |-> <<>>]
        ELSE LET k == MinOf(ks)
                 v == IndexFrom(seg, "\"", k + 15)
                 q == MinOf({j \in 9..(k - 1) : \A m \in j..(k - 1) : CharAt(seg, m) \in Whitespace})
                 radius == SubSeq(seg, k + 15, v - 1)
             IN  [text |-> SubSeq(seg, 1, q - 1) \o SubSeq(seg, v + 1, Len(seg)),
                  warnings |-> <<[type |-> "invalid-attribute",
                                  message |-> "border-radius is not valid on mj-text. Use CSS classes or mj-wrapper instead.",
                                  fix |-> "Removed border-radius=\"" \o radius \o "\" from mj-text"]>>]

\* does val match \d+px\s+\d+px from its first to its last character
IsPxPair(val) ==
    LET d1 == RunEnd(val, 1, Digits)
        w == RunEnd(val, d1 + 3, Whitespace)
        d2 == RunEnd(val, w + 1, Digits)
    IN  /\ d1 >= 1 /\ StartsWithAt(val, d1 + 1, "px")
        /\ w >= d1 + 3
        /\ d2 >= w + 1 /\ StartsWithAt(val, d2 + 1, "px")
        /\ d2 + 2 = Len(val)

\* const [top, right] = padding.split(' ')
SplitTopRight(padding) ==
    LET sp1 == IndexFrom(padding, " ", 1)
        sp2 == IF sp1 = 0 THEN 0 ELSE IndexFrom(padding, " ", sp1 + 1)
    IN  [top |-> IF sp1 = 0 THEN padding ELSE SubSeq(padding, 1, sp1 - 1),
         right |-> IF sp1 = 0 THEN "undefined"
                   ELSE SubSeq(padding, sp1 + 1, IF sp2 = 0 THEN Len(padding) ELSE sp2 - 1)]

FourSides(padding) ==
    LET tr == SplitTopRight(padding)
    IN  "padding-top=\"" \o tr.top \o "\" padding-right=\"" \o tr.right
        \o "\" padding-bottom=\"" \o tr.top \o "\" padding-left=\"" \o tr.right \o "\""

\* /padding="(\d+px\s+\d+px)"/g on one entry, from position `from` on
RECURSIVE ExpandPaddingFrom(_, _)
ExpandPaddingFrom(seg, from) ==
    LET p == IndexFrom(seg, "padding=\"", from)
        v == IF p = 0 THEN 0 ELSE IndexFrom(seg, "\"", p + 9)
    IN  IF p = 0 THEN [text |-> SubSeq(seg, from, Len(seg)), warnings |-> <<>>]
        ELSE IF v # 0 /\ IsPxPair(SubSeq(seg, p + 9, v - 1))
        THEN LET padding == SubSeq(seg, p + 9, v - 1)
                 rest == ExpandPaddingFrom(seg, v + 1)
             IN  [text |-> SubSeq(seg, from, p - 1) \o FourSides(padding) \o rest.text,
                  warnings |-> <<[type |-> "padding-format",
                                  message |-> "Converted shorthand padding to individual attributes",
                                  fix |-> "padding=\"" \o padding \o "\" -> " \o FourSides(padding)]>>
                               \o rest.warnings]
        ELSE LET rest == ExpandPaddingFrom(seg, p + 9)
             IN  [text |-> SubSeq(seg, from, p + 8) \o rest.text, warnings |-> rest.warnings]

\* a replace callback applied to every entry of a text, warnings in text order
TextsOf(rs) == [k \in 1..Len(rs) |-> rs[k].text]
WarningsOf(rs) == Concat([k \in 1..Len(rs) |-> rs[k].warnings])

fixInvalidAttributes(mjmlString) ==
    LET radius == [k \in 1..Len(mjmlString) |-> RemoveBorderRadius(mjmlString[k])]
        padded == [k \in 1..Len(mjmlString) |-> ExpandPaddingFrom(radius[k].text, 1)]
    IN  [text |-> TextsOf(padded), warnings |-> WarningsOf(radius) \o WarningsOf(padded)]

\* /<mj-column[^>]*>[\s\S]*?<mj-section/.test(text): an <mj-column ...> tag
\* with the characters <mj-section anywhere after it
fixStructuralIssues(mjmlString) ==
    IF \E a \in 1..Len(mjmlString) :
           /\ StartsWithAt(mjmlString[a], 1, "<mj-column")
           /\ IndexFrom(mjmlString[a], ">", 1) # 0
           /\ \E b \in (a + 1)..Len(mjmlString) : StartsWithAt(mjmlString[b], 1, "<mj-section")
    THEN <<[type |-> "structural-error",
            message |-> "mj-section cannot be nested inside mj-column"]>>
    ELSE <<>>

\* /<mj-image(?![^>]*alt=)([^>]*?)>/g on one entry
AddAlt(seg) ==
    LET gt == IndexFrom(seg, ">", 10)
        alt == IndexFrom(seg, "alt=", 10)
    IN  IF StartsWithAt(seg, 1, "<mj-image") /\ gt # 0 /\ (alt = 0 \/ alt > gt)
        THEN [text |-> SubSeq(seg, 1, gt - 1) \o " alt=\"Image\">" \o SubSeq(seg, gt + 1, Len(seg)),
              warnings |-> <<[type |-> "missing-attribute",
                              message |-> "Added missing alt attribute to mj-image for accessibility"]>>]
        ELSE [text |-> seg, warnings |-> <<>>]

addRequiredAttributes(mjmlString) ==
    LET alts == [k \in 1..Len(mjmlString) |-> AddAlt(mjmlString[k])]
    IN  [text |-> TextsOf(alts), warnings |-> WarningsOf(alts)]

validateAndCorrectMJML(mjmlString) ==
    LET attrs == fixInvalidAttributes(mjmlString)
        errs == fixStructuralIssues(attrs.text)
        alts == addRequiredAttributes(attrs.text)
    IN  [isValid |-> Len(errs) = 0,
         correctedMjml |-> alts.text,
         errors |-> errs,
         warnings |-> attrs.warnings \o alts.warnings]

(***************************************************************************)
(* extractMJMLFromResponse.  A provider's answer is a string; a backquote  *)
(* cannot be written in a string here, so the character ~ stands for it    *)
(* and ~~~ is the fence of a code block.                                   *)
(***************************************************************************)
Fence == "~~~"

MaxOf(S) == CHOOSE k \in S : \A j \in S : k >= j

\* String.prototype.lastIndexOf(lit) restricted to positions from `from` on,
\* 1-based; 0 when lit does not occur there
LastIndexFrom(s, lit, from) ==
    LET ks == {k \in from..(Len(s) - Len(lit) + 1) : StartsWithAt(s, k, lit)}
    IN  IF ks = {} THEN 0 ELSE MaxOf(ks)

\* String.prototype.trim()
TrimSpace == {" ", "\t", "\n", "\r"}
Trim(s) ==
    LET ks == {k \in 1..Len(s) : CharAt(s, k) \notin TrimSpace}
    IN  IF ks = {} THEN "" ELSE SubSeq(s, MinOf(ks), MaxOf(ks))

\* a match of fence-open ([\s\S]*?) \n``` whose opening fence starts at p
\* and whose captured content starts at c: the lazy content ends at the first
\* newline-and-fence from c on
BlockMatch(s, p, c) ==
    LET q == IndexFrom(s, "\n" \o Fence, c)
    IN  [found |-> q # 0,
         whole |-> IF q = 0 THEN "" ELSE SubSeq(s, p, q + 3),
         content |-> IF q = 0 THEN "" ELSE SubSeq(s, c, q - 1)]

\* a match of open-tag [\s\S]* <\/mjml>: from the first occurrence of the
\* opening literal to the last </mjml> after it
TagMatch(s, open) ==
    LET a == IndexFrom(s, open, 1)
        b == IF a = 0 THEN 0 ELSE LastIndexFrom(s, "</mjml>", a + Len(open))
    IN  [found |-> b # 0, whole |-> IF b = 0 THEN "" ELSE SubSeq(s, a, b + 6)]

\* extractMJMLFromResponse of lib/multi-ai.js (fallback-mjml.js:858-862):
\* /```mjml\n([\s\S]*?)\n```/ || /<mjml>[\s\S]*<\/mjml>/, then
\* mjmlMatch[1] || mjmlMatch[0]
extractMJMLFromResponse(resp) ==
    LET p == IndexFrom(resp, Fence \o "mjml\n", 1)
        block == IF p = 0 THEN [found |-> FALSE, whole |-> "", content |-> ""]
                 ELSE BlockMatch(resp, p, p + 8)
        tag == TagMatch(resp, "<mjml>")
    IN  IF block.found THEN (IF block.content # "" THEN block.content ELSE block.whole)
        ELSE IF tag.found THEN tag.whole
        ELSE resp

\* extractMJMLFromResponse of lib/ai.js (221-239):
\* /```(?:mjml)?\n([\s\S]*?)\n```/, then /<mjml[\s\S]*<\/mjml>/, then the
\* response, each trimmed
extractMJMLFromResponseAI(resp) ==
    LET ps == {k \in 1..Len(resp) : \/ StartsWithAt(resp, k, Fence \o "mjml\n")
                                     \/ StartsWithAt(resp, k, Fence \o "\n")}
        p == IF ps = {} THEN 0 ELSE MinOf(ps)
        block == IF p = 0 THEN [found |-> FALSE, whole |-> "", content |-> ""]
                 ELSE BlockMatch(resp, p, IF StartsWithAt(resp, p, Fence \o "mjml\n")
                                          THEN p + 8 ELSE p + 4)
        tag == TagMatch(resp, "<mjml")
    IN  IF block.found THEN Trim(block.content)
        ELSE IF tag.found THEN Trim(tag.whole)
        ELSE Trim(resp)

(***************************************************************************)
(* generateMJMLFromLayout (lib/ai.js) and the convert-figma handler        *)
(***************************************************************************)
ProductionChain == <<"openai", "groq", "cohere", "enhanced-fallback">>

\* the end of generateMJMLFromLayout: return result.mjml, or the catch block,
\* whose generateFallbackMJML is neither imported nor defined in lib/ai.js
generateMJMLFromLayoutReturn(res) ==
    IF res.state = "returned" THEN Value(res.value.mjml)
    ELSE Threw("ReferenceError: generateFallbackMJML is not defined")

\* Step 4 of the handler once generation has finished: mjmlCode and usedFallback
HandlerStep4(hasOpenAI, res, ld) ==
    IF hasOpenAI THEN
        LET r == generateMJMLFromLayoutReturn(res) IN
        IF r.threw
        THEN [mjmlCode |-> generateFallbackMJML(ld), usedFallback |-> TRUE]
        ELSE [mjmlCode |-> r.value, usedFallback |-> FALSE]
    ELSE [mjmlCode |-> generateFallbackMJML(ld), usedFallback |-> TRUE]

NotSent == [sent |-> FALSE]

NotValidated == [state |-> "none"]

NotExtracted == [state |-> "none"]

\* no convert-image request, and the handler's locals before it runs
NoImage == [state |-> "none"]
NotRun == [state |-> "none"]

\* what the mjml compiler, an external collaborator, does with a text: it
\* throws, or it returns html together with its own list of errors
MjmlOutcomes ==
    {[ok |-> FALSE, errors |-> <<>>],
     [ok |-> TRUE, errors |-> <<>>],
     [ok |-> TRUE, errors |-> <<[line |-> 1, message |-> "Attribute is illegal", tagName |-> "mj-text"]>>]}

\* the html the compiler returns for a text
Html(text) == [compiledFrom |-> text]

\* compileMJML (lib/mjml.js) from its Step 2 on: the corrected text of the
\* validator's report v is handed to the compiler.  `validation` is the
\* report, `compiled` the text mjml() was invoked on, `result` what
\* compileMJML returns.
CompileCorrected(v, out) ==
    [validation |-> v,
     compiled |-> v.correctedMjml,
     result |->
        IF out.ok
        THEN [success |-> TRUE, html |-> Html(v.correctedMjml),
              errors |-> out.errors,
              warnings |-> v.warnings,
              correctedMjml |-> IF v.isValid THEN <<>> ELSE v.correctedMjml,
              validationApplied |-> ~v.isValid]
        ELSE [success |-> FALSE, html |-> Html(<<>>),
              errors |-> <<[line |-> 0, message |-> "mjml threw", tagName |-> "compilation"]>>,
              warnings |-> <<>>]]

\* compileMJML: Step 1, the validator, then Step 2 on what it returned
compileMJML(mjmlCode, out) == CompileCorrected(validateAndCorrectMJML(mjmlCode), out)

\* validateMJML (lib/mjml.js): mjml(mjmlCode, { validationLevel: 'strict' }) on
\* the text as it is; the handler only logs what it returns
validateMJML(mjmlCode) == [compiled |-> mjmlCode]

\* Step 7, or the 500 of Step 6
HandlerRespond(g, compilation) ==
    IF ~compilation.success
    THEN [sent |-> TRUE, status |-> 500, success |-> FALSE, details |-> compilation.errors]
    ELSE [sent |-> TRUE, status |-> 200, success |-> TRUE,
          mjml |-> g.mjmlCode, html |-> compilation.html,
          usedFallback |-> g.usedFallback,
          aiUsed |-> ~g.usedFallback,
          validation |-> [errors |-> compilation.errors, warnings |-> compilation.warnings]]

\* Steps 5 to 7 of the handler on the generated document g.mjmlCode
HandlerSteps5to7(g, out) ==
    \E text \in {DocText(g.mjmlCode)} :
    \E strict \in {validateMJML(text)}, c \in {compileMJML(text, out)} :
        /\ pc' = "responded"
        /\ response' = HandlerRespond(g, c.result)
        /\ mjmlText' = text
        /\ validation' = c.validation
        /\ mjmlCalls' = <<[by |-> "validateMJML", text |-> strict.compiled],
                          [by |-> "compileMJML", text |-> c.compiled]>>

(***************************************************************************)
(* The convert-image handler (pages/api/convert-image.js) and what it      *)
(* calls: lib/vision (analyzeImageWithAI, extractImageMetadata,            *)
(* validateImageForEmail), generateMJMLFromImage (lib/ai.js) and           *)
(* generateFallbackMJMLFromImage (lib/fallback-mjml.js)                    *)
(***************************************************************************)

\* format by file header; width and height are never determined
extractImageMetadata(img) == [format |-> img.format, large |-> img.large]

validateImageForEmail(img) ==
    LET metadata == extractImageMetadata(img)
    IN  [isValid |-> metadata.format \in {"jpeg", "png", "gif"},
         warnings |-> (IF metadata.large
                       THEN <<"Image is large. Consider optimizing for email.">> ELSE <<>>)
                      \o (IF metadata.format = "svg"
                          THEN <<"SVG images are not supported in most email clients. Consider converting to PNG or JPEG.">>
                          ELSE <<>>),
         errors |-> IF metadata.format \in {"jpeg", "png", "gif"} THEN <<>>
                    ELSE <<"Format '" \o metadata.format \o "' may not be supported in all email clients. Use JPEG, PNG, or GIF.">>]

\* what the request of analyzeImageWithAI can settle to
VisionResponses ==
    {[kind |-> "ok", status |-> 200, message |-> ""],
     [kind |-> "no_choices", status |-> 200, message |-> ""],
     [kind |-> "http_error_json", status |-> 404,
      message |-> "The model gpt-4-vision-preview has been deprecated"],
     [kind |-> "http_error_json", status |-> 429, message |-> "Rate limit reached"],
     [kind |-> "http_error_nojson", status |-> 502, message |-> ""],
     [kind |-> "network_error", status |-> 0, message |-> ""]}

generateFallbackAnalysis == "Image Analysis (Fallback Mode): ..."

analyzeImageWithAIStart(e) ==
    IF e.OPENAI_API_KEY = "" THEN Threw("OpenAI API key not found")
    ELSE AwaitFetch("https://api.openai.com/v1/chat/completions")

\* the try block after the fetch, and the catch block that turns an error
\* whose message holds 'vision' or 'gpt-4' into the fallback analysis.  What
\* is returned is a string; byAI tells whether it is the provider's.
analyzeImageWithAIResume(resp) ==
    LET error == IF resp.kind = "network_error" THEN "fetch failed"
                 ELSE IF resp.kind = "http_error_nojson" THEN "Unexpected token in JSON"
                 ELSE IF resp.kind = "http_error_json"
                      THEN "OpenAI Vision API error: " \o resp.message
                 ELSE "No analysis generated from OpenAI Vision"
    IN  IF resp.kind = "ok"
        THEN Value([text |-> "The image shows a newsletter layout", byAI |-> TRUE])
        ELSE IF StrIncludes(error, "vision") \/ StrIncludes(error, "gpt-4")
        THEN Value([text |-> generateFallbackAnalysis, byAI |-> FALSE])
        ELSE Threw(error)

generateMJMLFromImageStart(e) ==
    IF e.OPENAI_API_KEY = "" THEN Threw("OpenAI API key not found")
    ELSE AwaitFetch("https://api.openai.com/v1/chat/completions")

\* the try block of generateMJMLFromImage after the fetch; its catch rethrows
generateMJMLFromImageResume(resp) ==
    IF resp.kind = "network_error" THEN Threw("fetch failed")
    ELSE IF resp.kind = "http_error_nojson" THEN Threw("Unexpected token in JSON")
    ELSE IF resp.kind = "http_error_json" THEN Threw("OpenAI API error: upstream error")
    ELSE IF resp.kind = "malformed" THEN Threw("Cannot read properties of undefined")
    ELSE Value(Doc("openai", IF resp.kind = "ok_nested" THEN AINestedContent ELSE AIContent))

\* metadata.width and metadata.height are null, so 600 and 400 are written
generateFallbackMJMLFromImage(metadata) ==
    Doc("image-fallback",
        <<Open("mjml", <<>>), Open("mj-head", <<>>),
          Open("mj-title", <<>>), Txt("Email Template from Image"), Close("mj-title"),
          Open("mj-preview", <<>>), Txt("Generated email template from uploaded image"),
          Close("mj-preview"),
          Open("mj-attributes", <<>>),
          Self("mj-all", <<<<"font-family", "Arial, sans-serif">>>>),
          Self("mj-text", <<<<"font-size", "14px">>, <<"color", "#333333">>,
                            <<"line-height", "1.6">>>>),
          Self("mj-section", <<<<"background-color", "#ffffff">>, <<"padding", "20px">>>>),
          Close("mj-attributes"),
          Open("mj-style", <<<<"inline", "inline">>>>),
          Txt(".header { background-color: #f8f9fa; } .footer { background-color: #e9ecef; }"),
          Close("mj-style"),
          Close("mj-head"), Open("mj-body", <<>>),
          Open("mj-section", <<<<"css-class", "header">>, <<"padding", "20px">>>>),
          Open("mj-column", <<>>),
          Open("mj-text", <<<<"align", "center">>, <<"font-size", "24px">>,
                            <<"font-weight", "bold">>, <<"color", "#333333">>>>),
          Txt("Your Email Header"), Close("mj-text"),
          Close("mj-column"), Close("mj-section"),
          Open("mj-section", <<<<"padding", "20px">>>>), Open("mj-column", <<>>),
          Open("mj-text", <<<<"font-size", "16px">>, <<"color", "#333333">>>>),
          Txt("This email template was generated from your uploaded image (600x400px)."),
          Close("mj-text"),
          Self("mj-spacer", <<<<"height", "20px">>>>),
          Open("mj-text", <<>>),
          Txt("Please customize this template with your actual content:"), Close("mj-text"),
          Self("mj-spacer", <<<<"height", "20px">>>>),
          Open("mj-button", <<<<"background-color", "#007bff">>, <<"color", "white">>,
                              <<"border-radius", "5px">>>>),
          Txt("Call to Action"), Close("mj-button"),
          Close("mj-column"), Close("mj-section"),
          Open("mj-section", <<<<"css-class", "footer">>, <<"padding", "20px">>>>),
          Open("mj-column", <<>>),
          Open("mj-text", <<<<"align", "center">>, <<"font-size", "12px">>,
                            <<"color", "#666666">>>>),
          Txt("Generated with Figma to MJML AI Agent"), Close("mj-text"),
          Close("mj-column"), Close("mj-section"),
          Close("mj-body"), Close("mjml")>>)

\* the handler's locals once Step 1 has finished with r, the completion of
\* analyzeImageWithAI: the returned string has no `metadata`, so
\* !imageAnalysisResult.metadata?.aiUsed is true
ImageStep1(r) ==
    [state |-> "running",
     analysisByAI |-> ~r.threw /\ r.value.byAI,
     imageAnalysis |-> IF r.threw
                       THEN "Image uploaded for email template conversion. Using basic template structure."
                       ELSE r.value.text,
     usedFallback |-> TRUE,
     generationByAI |-> FALSE,
     mjmlCode |-> Doc("none", <<>>),
     compilation |-> [success |-> FALSE],
     cleanup |-> "none"]

\* the handler's locals once Step 2 has finished with r, the completion of
\* generateMJMLFromImage
ImageStep2(run, r, img) ==
    IF r.threw
    THEN [run EXCEPT !.mjmlCode = generateFallbackMJMLFromImage(extractImageMetadata(img)),
                     !.usedFallback = TRUE]
    ELSE [run EXCEPT !.mjmlCode = r.value, !.generationByAI = TRUE]

\* the 200 response of the handler
ImageRespond(run, img, compilation) ==
    [sent |-> TRUE, status |-> 200, success |-> TRUE,
     mjml |-> run.mjmlCode, html |-> compilation.html,
     usedFallback |-> run.usedFallback,
     metadata |-> [format |-> extractImageMetadata(img).format, aiUsed |-> ~run.usedFallback],
     validation |-> [errors |-> compilation.errors,
                     warnings |-> validateImageForEmail(img).warnings \o compilation.warnings]]

\* the catch block of the handler
ImageCatch(message) ==
    IF StrIncludes(message, "File too large")
    THEN [sent |-> TRUE, status |-> 413, success |-> FALSE,
          error |-> "Image file too large. Maximum size is 10MB."]
    ELSE IF StrIncludes(message, "quota") \/ StrIncludes(message, "billing")
    THEN [sent |-> TRUE, status |-> 429, success |-> FALSE,
          error |-> "OpenAI quota exceeded. Please check your billing."]
    ELSE [sent |-> TRUE, status |-> 500, success |-> FALSE, error |-> message]

(***************************************************************************)
(* Inputs                                                                  *)
(***************************************************************************)
SeqsUpTo(S, n) == UNION {[1..k -> S] : k \in 0..n}

\* the five configured names, the synthesizer's name, and a name unknown to AI_PROVIDERS
ProviderNames == AI_PROVIDERS \cup {"enhanced-fallback", "mystery-ai"}

\* the lists a direct caller passes; omitting the argument gives the default list
ProviderLists == SeqsUpTo(ProviderNames, MaxProviders) \cup {ProductionChain}

Envs == [OPENAI_API_KEY : {"", "sk-openai"},
         GROQ_API_KEY : {"", "gsk-groq"},
         COHERE_API_KEY : {"", "demo-key", "co-key"}]

Bounds0 == [x |-> 0, y |-> 40, width |-> 600, height |-> 20]

ElemPool ==
    {[type |-> "TEXT", name |-> "Header", text |-> "Hi", fontSize |-> 24,
      fontWeight |-> 600, textColor |-> "#333333"],
     [type |-> "TEXT"],
     [type |-> "TEXT", name |-> "Blank", text |-> "", fontSize |-> 0, fontWeight |-> 0],
     [type |-> "TEXT", name |-> "Hidden", text |-> "Hidden", visible |-> FALSE, bounds |-> Bounds0],
     [type |-> "RECTANGLE", name |-> "Hero Image", backgroundColor |-> "#f0f0f0", hasImage |-> TRUE],
     [type |-> "RECTANGLE", name |-> "Bar", backgroundColor |-> "rgb(0, 0, 0)", visible |-> TRUE],
     [type |-> "TEXT", name |-> "Right", text |-> "Right",
      bounds |-> [x |-> 300, y |-> 40, width |-> 300, height |-> 20]],
     [type |-> "TEXT", name |-> "Top", text |-> "Top",
      bounds |-> [x |-> 0, y |-> 10, width |-> 600, height |-> 20]],
     [type |-> "FRAME", name |-> "Card", backgroundColor |-> "#f0f0f0", bounds |-> Bounds0],
     [type |-> "FRAME", name |-> "Gap", backgroundColor |-> "transparent"],
     [type |-> "FRAME"],
     [type |-> "ELLIPSE", name |-> "Dot"]}

\* the frame fields around an element list: sizes at the boundary values,
\* backgroundColor and name present or not
FrameShells ==
    {[width |-> d, height |-> d] : d \in {1, 600, 10000}}
    \cup {[name |-> "Newsletter", width |-> 600, height |-> 800],
          [name |-> "Newsletter", width |-> 600, height |-> 800, backgroundColor |-> "#ffffff"],
          [name |-> "", width |-> 0, height |-> 0]}

\* well-formed layouts: a shell, with an element list or without one
Layouts ==
    FrameShells
    \cup {[elements |-> es] @@ sh : sh \in FrameShells, es \in SeqsUpTo(ElemPool, MaxElems)}

\* the sample of lib/demo-multi-ai (unnamed/part_003)
SampleLayout ==
    [name |-> "Newsletter Template", width |-> 600, height |-> 800,
     elements |-> <<[type |-> "TEXT", name |-> "Header", text |-> "Monthly Newsletter",
                     fontSize |-> 24, fontWeight |-> 600, textColor |-> "#333333"],
                    [type |-> "RECTANGLE", name |-> "Hero Image",
                     backgroundColor |-> "#f0f0f0", hasImage |-> TRUE],
                    [type |-> "TEXT", name |-> "Content", text |-> "This is the main content",
                     fontSize |-> 14, textColor |-> "#333333"]>>]

\* what a direct caller passes: no layout at all, an empty frame, the sample
DirectLayoutDatas ==
    {[fileName |-> "demo-email-design.fig", layouts |-> <<>>],
     [fileName |-> "demo-email-design.fig",
      layouts |-> <<[name |-> "Empty", width |-> 600, height |-> 800, elements |-> <<>>]>>],
     [fileName |-> "demo-email-design.fig", layouts |-> <<SampleLayout>>]}

\* what the handler passes: emailFrames is not empty and each frame has elements
FigmaLayoutDatas ==
    {[fileName |-> "design.fig", layouts |-> <<SampleLayout>>],
     [fileName |-> "design.fig",
      layouts |-> <<[name |-> "Promo", width |-> 320, height |-> 480,
                     backgroundColor |-> "rgb(255, 255, 255)",
                     elements |-> <<[type |-> "RECTANGLE", name |-> "Bar", visible |-> TRUE,
                                     backgroundColor |-> "rgb(0, 0, 0)"]>>]>>]}

\* the inputs of the synthesizer on its own: every well-formed layout, and the
\* layoutData that carries no layout
SynthLayoutDatas ==
    {[fileName |-> "design.fig", layouts |-> <<l>>] : l \in Layouts}
    \cup {[fileName |-> "design.fig", layouts |-> <<>>], [fileName |-> "design.fig"]}

\* fragments of MJML text: the two samples of the validator's test script
\* (unnamed/part_004), the examples of MJML_VALIDATION.md, and tags that carry
\* an attribute twice, other whitespace inside a padding value, other
\* attributes that end in "padding" or hold "alt=", and sections and columns
\* nested both ways
MjmlParts ==
    {<<"<mj-text border-radius=\"8px\" padding=\"15px\">", "Invalid text with border-radius", "</mj-text>">>,
     <<"<mj-button border-radius=\"6px\">", "Valid button", "</mj-button>">>,
     <<"<mj-text color=\"red\"  border-radius=\"4px\" border-radius=\"8px\" align=\"left\">", "Twice", "</mj-text>">>,
     <<"<mj-image src=\"test.jpg\" />">>,
     <<"<mj-image src=\"logo.png\" alt=\"Company Logo\" />">>,
     <<"<mj-image src=\"https://cdn.example.com/o/hero.png?alt=media\">">>,
     <<"<mj-text padding=\"20px 10px\">", "Content", "</mj-text>">>,
     <<"<mj-text padding=\"20px  10px\">", "Two spaces", "</mj-text>">>,
     <<"<mj-text padding=\"20px\t10px\">", "Tab", "</mj-text>">>,
     <<"<mj-button inner-padding=\"10px 25px\" padding=\"12px 30px 12px 30px\">", "Go", "</mj-button>">>,
     <<"<mj-section padding=\"20px 0\">", "<mj-column>", "<mj-text>", "Hello", "</mj-text>",
       "</mj-column>", "</mj-section>">>,
     <<"<mj-column>", "<mj-section>", "Content", "</mj-section>", "</mj-column>">>}

\* the texts handed to the validator on its own
ValidatorTexts == {Concat(ps) : ps \in SeqsUpTo(MjmlParts, MaxParts)}

\* pieces of a provider's answer: prose, a fenced block tagged mjml, one with
\* no tag, one tagged html, one tagged mjml with nothing in it, a bare
\* document, and a bare document whose root tag carries an attribute
ResponseChunks ==
    {"Here is your template:\n",
     "\nLet me know if you need changes.",
     Fence \o "mjml\n<mjml><mj-body></mj-body></mjml>\n" \o Fence,
     Fence \o "\nnpm install mjml\n" \o Fence \o "\n",
     Fence \o "html\n<p>preview</p>\n" \o Fence \o "\n",
     Fence \o "mjml\n\n" \o Fence,
     "<mjml><mj-body><mj-section></mj-section></mj-body></mjml>",
     "<mjml lang=\"en\"><mj-body></mj-body></mjml>"}

RECURSIVE ConcatStr(_)
ConcatStr(ss) == IF Len(ss) = 0 THEN "" ELSE ss[1] \o ConcatStr(Tail(ss))

\* the answers handed to extractMJMLFromResponse on its own
ResponseTexts == {ConcatStr(cs) : cs \in SeqsUpTo(ResponseChunks, MaxChunks)}

\* the uploads of a convert-image request: a form with or without an image
\* field, one that formidable rejects, and the file formats that
\* extractImageMetadata tells apart
Images ==
    [state : {"request"},
     hasFile : BOOLEAN,
     parseError : {"", "File too large", "maxFileSize exceeded"},
     format : {"jpeg", "png", "gif", "bmp", "svg", "unknown"},
     large : BOOLEAN]

(***************************************************************************)
(* The state machine                                                       *)
(***************************************************************************)
Init ==
    /\ entry \in {"direct", "figma"}
    /\ env \in Envs
    /\ IF entry = "direct"
       THEN layoutData \in DirectLayoutDatas /\ providers \in ProviderLists
       ELSE layoutData \in FigmaLayoutDatas /\ providers = <<>>
    /\ pc = "start"
    /\ i = 1
    /\ errors = <<>>
    /\ attempts = <<>>
    /\ httpCalls = <<>>
    /\ net = "idle"
    /\ result = Pending
    /\ response = NotSent
    /\ mjmlText = <<>>
    /\ validation = NotValidated
    /\ mjmlCalls = <<>>
    /\ settled = <<>>
    /\ responseText = ""
    /\ extracted = NotExtracted
    /\ image = NoImage
    /\ upload = "none"
    /\ imageRun = NotRun

\* the variables after the orchestrator has run to the record st; when the
\* handler is the caller and generation has finished, the handler runs on to
\* its response
Install(st, out) ==
    /\ i' = st.i
    /\ errors' = st.errors
    /\ attempts' = st.attempts
    /\ httpCalls' = st.httpCalls
    /\ result' = st.result
    /\ net' = IF st.pc = "awaitFetch" THEN "pending" ELSE "idle"
    /\ IF entry = "figma" /\ st.pc # "awaitFetch"
       THEN HandlerSteps5to7(HandlerStep4(TRUE, st.result, layoutData), out)
       ELSE /\ pc' = st.pc
            /\ UNCHANGED <<response, mjmlText, validation, mjmlCalls>>

CurrentRun == [pc |-> pc, i |-> i, errors |-> errors, attempts |-> attempts,
               httpCalls |-> httpCalls, result |-> result]

\* a caller invokes generateMJMLWithFallback(layoutData, providers)
Call ==
    /\ entry = "direct"
    /\ pc = "start"
    /\ Install(RunLoop(StartRun, layoutData, env, providers), [ok |-> TRUE, errors |-> <<>>])
    /\ UNCHANGED <<entry, env, layoutData, providers, settled, extractVars, imageVars>>

\* POST /api/convert-figma, from Step 4 on
Handler ==
    /\ entry = "figma"
    /\ pc = "start"
    /\ \E out \in MjmlOutcomes :
        IF env.OPENAI_API_KEY # ""
        THEN /\ providers' = ProductionChain
             /\ Install(RunLoop(StartRun, layoutData, env, ProductionChain), out)
        ELSE /\ HandlerSteps5to7(HandlerStep4(FALSE, result, layoutData), out)
             /\ UNCHANGED <<providers, i, errors, attempts, httpCalls, net, result>>
    /\ UNCHANGED <<entry, env, layoutData, settled, extractVars, imageVars>>

\* the HTTP request in flight settles and the run continues
FetchSettles ==
    /\ pc = "awaitFetch"
    /\ net = "pending"
    /\ \E resp \in Responses, out \in MjmlOutcomes :
        /\ Install(ResumeLoop(CurrentRun, layoutData, env, providers, resp), out)
        /\ settled' = Append(settled, resp)
    /\ UNCHANGED <<entry, env, layoutData, providers, extractVars, imageVars>>

\* the provider accepts the request and never answers; the code sets no timeout
\* and passes no AbortSignal to fetch
FetchHangs ==
    /\ pc = "awaitFetch"
    /\ net = "pending"
    /\ net' = "hung"
    /\ UNCHANGED <<entry, env, layoutData, providers, pc, i, errors, attempts, httpCalls,
                   result, response, mjmlText, validation, mjmlCalls, settled, extractVars,
                   imageVars>>

Next == Call \/ Handler \/ FetchSettles \/ FetchHangs

Spec == Init /\ [][Next]_vars

\* the calls of generateMJMLWithFallback with the default provider list, in
\* which every step that is enabled is eventually taken: a fetch that can
\* settle does settle, unless it hangs
FairInit == Init /\ entry = "direct" /\ providers = ProductionChain

FairNext == Call \/ FetchSettles \/ FetchHangs

FairSpec == FairInit /\ [][FairNext]_vars /\ WF_vars(FairNext)

(***************************************************************************)
(* The synthesizer on its own, over every layout                           *)
(***************************************************************************)
SynthInit ==
    /\ entry = "synth"
    /\ env \in {[OPENAI_API_KEY |-> "", GROQ_API_KEY |-> "", COHERE_API_KEY |-> ""]}
    /\ layoutData \in SynthLayoutDatas
    /\ providers = <<>>
    /\ pc = "start"
    /\ i = 1
    /\ errors = <<>>
    /\ attempts = <<>>
    /\ httpCalls = <<>>
    /\ net = "idle"
    /\ result = Pending
    /\ response = NotSent
    /\ mjmlText = <<>>
    /\ validation = NotValidated
    /\ mjmlCalls = <<>>
    /\ settled = <<>>
    /\ responseText = ""
    /\ extracted = NotExtracted
    /\ image = NoImage
    /\ upload = "none"
    /\ imageRun = NotRun

Synthesize ==
    /\ entry = "synth"
    /\ pc = "start"
    /\ LET r == generateEnhancedFallbackMJML(layoutData) IN
        /\ result' = IF r.threw THEN Thrown(r.error) ELSE Returned(r.value)
        /\ pc' = IF r.threw THEN "threw" ELSE "returned"
    /\ attempts' = <<"enhanced-fallback">>
    /\ UNCHANGED <<entry, env, layoutData, providers, i, errors, httpCalls, net, response,
                   mjmlText, validation, mjmlCalls, settled, extractVars, imageVars>>

SynthNext == Synthesize

SynthSpec == SynthInit /\ [][SynthNext]_vars

(***************************************************************************)
(* The validator on its own: a text is validated, and the corrected text   *)
(* is validated again                                                      *)
(***************************************************************************)
ValidatorInit ==
    /\ entry = "validator"
    /\ env \in {[OPENAI_API_KEY |-> "", GROQ_API_KEY |-> "", COHERE_API_KEY |-> ""]}
    /\ layoutData = [fileName |-> "design.fig"]
    /\ providers = <<>>
    /\ pc = "start"
    /\ i = 1
    /\ errors = <<>>
    /\ attempts = <<>>
    /\ httpCalls = <<>>
    /\ net = "idle"
    /\ result = Pending
    /\ response = NotSent
    /\ mjmlText \in ValidatorTexts
    /\ validation = NotValidated
    /\ mjmlCalls = <<>>
    /\ settled = <<>>
    /\ responseText = ""
    /\ extracted = NotExtracted
    /\ image = NoImage
    /\ upload = "none"
    /\ imageRun = NotRun

\* validateAndCorrectMJML(mjmlText)
Validate ==
    /\ entry = "validator"
    /\ pc = "start"
    /\ validation' = validateAndCorrectMJML(mjmlText)
    /\ pc' = "validated"
    /\ UNCHANGED <<entry, env, layoutData, providers, i, errors, attempts, httpCalls, net,
                   result, response, mjmlText, mjmlCalls, settled, extractVars, imageVars>>

\* validateAndCorrectMJML(validation.correctedMjml)
Revalidate ==
    /\ entry = "validator"
    /\ pc = "validated"
    /\ mjmlText' = validation.correctedMjml
    /\ validation' = validateAndCorrectMJML(validation.correctedMjml)
    /\ pc' = "revalidated"
    /\ UNCHANGED <<entry, env, layoutData, providers, i, errors, attempts, httpCalls, net,
                   result, response, mjmlCalls, settled, extractVars, imageVars>>

ValidatorNext == Validate \/ Revalidate

ValidatorSpec == ValidatorInit /\ [][ValidatorNext]_vars

(***************************************************************************)
(* extractMJMLFromResponse on its own, over the answers of a provider      *)
(***************************************************************************)
ExtractInit ==
    /\ entry = "extract"
    /\ env \in {[OPENAI_API_KEY |-> "", GROQ_API_KEY |-> "", COHERE_API_KEY |-> ""]}
    /\ layoutData = [fileName |-> "design.fig"]
    /\ providers = <<>>
    /\ pc = "start"
    /\ i = 1
    /\ errors = <<>>
    /\ attempts = <<>>
    /\ httpCalls = <<>>
    /\ net = "idle"
    /\ result = Pending
    /\ response = NotSent
    /\ mjmlText = <<>>
    /\ validation = NotValidated
    /\ mjmlCalls = <<>>
    /\ settled = <<>>
    /\ responseText \in ResponseTexts
    /\ extracted = NotExtracted
    /\ image = NoImage
    /\ upload = "none"
    /\ imageRun = NotRun

\* both functions of that name are applied to the answer: the one the
\* adapters of lib/multi-ai.js call and the one of lib/ai.js
Extract ==
    /\ entry = "extract"
    /\ pc = "start"
    /\ extracted' = [state |-> "done",
                     multi |-> extractMJMLFromResponse(responseText),
                     ai |-> extractMJMLFromResponseAI(responseText)]
    /\ pc' = "extracted"
    /\ UNCHANGED <<entry, env, layoutData, providers, i, errors, attempts, httpCalls, net,
                   result, response, mjmlText, validation, mjmlCalls, settled, responseText,
                   imageVars>>

ExtractNext == Extract

ExtractSpec == ExtractInit /\ [][ExtractNext]_vars

(***************************************************************************)
(* POST /api/convert-image                                                 *)
(***************************************************************************)
ImageInit ==
    /\ entry = "image"
    /\ env \in {e \in Envs : e.GROQ_API_KEY = "" /\ e.COHERE_API_KEY = ""}
    /\ layoutData = [fileName |-> "upload.png"]
    /\ providers = <<>>
    /\ pc = "start"
    /\ i = 1
    /\ errors = <<>>
    /\ attempts = <<>>
    /\ httpCalls = <<>>
    /\ net = "idle"
    /\ result = Pending
    /\ response = NotSent
    /\ mjmlText = <<>>
    /\ validation = NotValidated
    /\ mjmlCalls = <<>>
    /\ settled = <<>>
    /\ responseText = ""
    /\ extracted = NotExtracted
    /\ image \in Images
    /\ upload = "none"
    /\ imageRun = NotRun

\* Step 3 on the locals `run`: compileMJML, then the 500 response or the
\* await of fs.unlink
ImageStep3(run, out) ==
    \E c \in {compileMJML(DocText(run.mjmlCode), out)} :
        /\ mjmlText' = DocText(run.mjmlCode)
        /\ validation' = c.validation
        /\ mjmlCalls' = <<[by |-> "compileMJML", text |-> c.compiled]>>
        /\ imageRun' = [run EXCEPT !.compilation = c.result]
        /\ net' = "idle"
        /\ IF c.result.success
           THEN pc' = "unlinking" /\ UNCHANGED response
           ELSE /\ pc' = "responded"
                /\ response' = [sent |-> TRUE, status |-> 500, success |-> FALSE,
                                error |-> "MJML compilation failed",
                                details |-> c.result.errors]

\* Step 2 on the locals `run`, up to the fetch of generateMJMLFromImage, or on
\* to Step 3 when it throws before fetching
ImageStep2Start(run, out) ==
    \E s \in {generateMJMLFromImageStart(env)} :
        IF s.threw
        THEN ImageStep3(ImageStep2(run, s, image), out)
        ELSE /\ pc' = "generating"
             /\ imageRun' = run
             /\ net' = "pending"
             /\ UNCHANGED <<response, mjmlText, validation, mjmlCalls>>

\* await form.parse(req), and the test for the image field
ImageParse ==
    /\ entry = "image"
    /\ pc = "start"
    /\ IF image.parseError # ""
       THEN /\ response' = ImageCatch(image.parseError)
            /\ pc' = "responded"
            /\ UNCHANGED upload
       ELSE IF ~image.hasFile
       THEN /\ response' = [sent |-> TRUE, status |-> 400, success |-> FALSE,
                            error |-> "No image file provided"]
            /\ pc' = "responded"
            /\ UNCHANGED upload
       ELSE /\ upload' = "onDisk"
            /\ pc' = "reading"
            /\ UNCHANGED response
    /\ UNCHANGED <<entry, env, layoutData, providers, i, errors, attempts, httpCalls, net,
                   result, mjmlText, validation, mjmlCalls, settled, extractVars, image,
                   imageRun>>

\* await fs.readFile, the image validation, and Step 1 up to its fetch
ImageRead ==
    /\ entry = "image"
    /\ pc = "reading"
    /\ \E readOk \in BOOLEAN, out \in MjmlOutcomes :
        IF ~readOk
        THEN /\ response' = ImageCatch("ENOENT: no such file or directory")
             /\ pc' = "responded"
             /\ UNCHANGED <<net, mjmlText, validation, mjmlCalls, imageRun>>
        ELSE IF ~validateImageForEmail(image).isValid
        THEN /\ response' = [sent |-> TRUE, status |-> 400, success |-> FALSE,
                             error |-> "Image validation failed",
                             details |-> validateImageForEmail(image).errors]
             /\ pc' = "responded"
             /\ UNCHANGED <<net, mjmlText, validation, mjmlCalls, imageRun>>
        ELSE \E a \in {analyzeImageWithAIStart(env)} :
                IF a.threw
                THEN ImageStep2Start(ImageStep1(a), out)
                ELSE /\ pc' = "analyzing"
                     /\ net' = "pending"
                     /\ UNCHANGED <<response, mjmlText, validation, mjmlCalls, imageRun>>
    /\ UNCHANGED <<entry, env, layoutData, providers, i, errors, attempts, httpCalls,
                   result, settled, extractVars, image, upload>>

\* the request of analyzeImageWithAI settles: the rest of Step 1, and Step 2
\* up to its fetch
ImageAnalyzed ==
    /\ entry = "image"
    /\ pc = "analyzing"
    /\ \E resp \in VisionResponses, out \in MjmlOutcomes :
        ImageStep2Start(ImageStep1(analyzeImageWithAIResume(resp)), out)
    /\ UNCHANGED <<entry, env, layoutData, providers, i, errors, attempts, httpCalls,
                   result, settled, extractVars, image, upload>>

\* the request of generateMJMLFromImage settles: the rest of Step 2, and Step 3
ImageGenerated ==
    /\ entry = "image"
    /\ pc = "generating"
    /\ \E resp \in Responses, out \in MjmlOutcomes :
        ImageStep3(ImageStep2(imageRun, generateMJMLFromImageResume(resp), image), out)
    /\ UNCHANGED <<entry, env, layoutData, providers, i, errors, attempts, httpCalls,
                   result, settled, extractVars, image, upload>>

\* await fs.unlink settles, its failure is caught and logged; the 200 response
ImageUnlinked ==
    /\ entry = "image"
    /\ pc = "unlinking"
    /\ \E unlinkOk \in BOOLEAN :
        /\ upload' = IF unlinkOk THEN "deleted" ELSE "onDisk"
        /\ imageRun' = [imageRun EXCEPT !.cleanup = IF unlinkOk THEN "done" ELSE "failed"]
    /\ response' = ImageRespond(imageRun, image, imageRun.compilation)
    /\ pc' = "responded"
    /\ UNCHANGED <<entry, env, layoutData, providers, i, errors, attempts, httpCalls, net,
                   result, mjmlText, validation, mjmlCalls, settled, extractVars, image>>

ImageNext == ImageParse \/ ImageRead \/ ImageAnalyzed \/ ImageGenerated \/ ImageUnlinked

ImageSpec == ImageInit /\ [][ImageNext]_vars

(***************************************************************************)
(* Properties                                                              *)
(***************************************************************************)
Finished == result.state # "pending"
Started == Finished \/ pc = "awaitFetch"
HasLayout == Has(layoutData, "layouts") /\ Len(layoutData.layouts) > 0
ProviderAnswered == result.state = "returned" /\ result.value.usedFallback = FALSE
RuleBased == {"enhanced-fallback", "basic-fallback"}

\* the attempts on AI providers, and the recorded failures of AI providers
AIAttempts == SelectSeq(attempts, LAMBDA p : p # "enhanced-fallback")
AIFailures == SelectSeq(errors, LAMBDA f : f.provider # "enhanced-fallback")

\* C1: whatever the provider list, when the layoutData has a layout and every
\* attempt made on an AI provider failed, generateMJMLWithFallback returns (it
\* does not throw) a result with usedFallback = true, provider =
\* 'enhanced-fallback' and a non-empty document built by the synthesizer.
C1_TerminalGuarantee ==
    (Finished /\ HasLayout /\ Len(AIAttempts) = Len(AIFailures))
        => /\ result.state = "returned"
           /\ result.value.usedFallback = TRUE
           /\ result.value.provider = "enhanced-fallback"
           /\ result.value.mjml.origin = "enhanced-fallback"
           /\ Len(result.value.mjml.tokens) > 0

\* a list whose providers all failed, some for lack of a key and some over the
\* network, ended in the synthesizer's result
C1_Witness ==
    /\ entry = "direct" /\ HasLayout /\ result.state = "returned"
    /\ result.value.usedFallback = TRUE
    /\ Len(providers) >= 2 /\ Len(errors) = Len(providers)
    /\ Len(httpCalls) = 1

\* C2: when a provider's attempt succeeds the call returns that provider's
\* document with usedFallback = false, and the attempts made are exactly the
\* providers of the list up to and including that one: nothing after it, and
\* no synthesizer after it, is invoked.
C2_FirstSuccessWins ==
    ProviderAnswered
        => LET k == Len(attempts) IN
           /\ k >= 1 /\ k <= Len(providers)
           /\ attempts = SubSeq(providers, 1, k)
           /\ result.value.provider = providers[k]
           /\ result.value.mjml.origin = providers[k]
           /\ Len(errors) = k - 1
           /\ httpCalls[Len(httpCalls)].index = k

\* [A fails, B succeeds, C]: B answered and C was never tried
C2_Witness ==
    /\ ProviderAnswered
    /\ Len(errors) >= 1
    /\ Len(attempts) < Len(providers)
    /\ providers[Len(attempts) + 1] \in {"cohere", "groq", "openai"}

\* C3: with the production chain and the three AI providers failing, the
\* result has usedFallback = true and an aiErrors list of exactly 3 entries.
C3_ProductionChainErrors ==
    (providers = ProductionChain /\ result.state = "returned"
     /\ result.value.usedFallback = TRUE /\ Len(errors) = 3)
        => /\ Has(result.value, "aiErrors")
           /\ Len(result.value.aiErrors) = 3

\* C4: each provider of the list whose attempt failed has exactly one entry in
\* errors, in list order (entry j is provider j); after n failures exactly the
\* first n + 1 providers have been attempted, or the terminal synthesizer when
\* the list is exhausted; and no provider's failure reaches the caller (the
\* call throws only from the terminal synthesizer, after the whole list).
C4_UniformFailureCapture ==
    Started
        => LET n == Len(errors) IN
           /\ n <= Len(providers)
           /\ \A j \in 1..n : errors[j].provider = providers[j] /\ errors[j].error # ""
           /\ attempts = IF n < Len(providers)
                         THEN SubSeq(providers, 1, n + 1)
                         ELSE providers \o <<"enhanced-fallback">>
           /\ (result.state = "threw" => n = Len(providers) /\ ~HasLayout)

\* two providers failed in different ways, both were recorded, and the call returned
C4_Witness ==
    /\ result.state = "returned"
    /\ Len(errors) >= 2
    /\ \E j \in 1..Len(httpCalls) : httpCalls[j].index = 2
    /\ errors[1].error # errors[2].error
    /\ errors[1].provider \in {"mystery-ai", "huggingface", "together"}

ApiKeyOf(p) ==
    IF p = "openai" THEN env.OPENAI_API_KEY
    ELSE IF p = "groq" THEN env.GROQ_API_KEY
    ELSE IF p = "cohere" THEN env.COHERE_API_KEY
    ELSE ""

\* C5: no HTTP request is ever issued to a provider whose API key is absent:
\* the attempt of such a provider fails with zero network calls.
C5_MissingCredentialsFailFast ==
    \A k \in 1..Len(httpCalls) : ApiKeyOf(httpCalls[k].provider) # ""

\* groq without a key was attempted and recorded, no request went to it, while
\* another provider, which has a key, was called
C5_Witness ==
    /\ env.GROQ_API_KEY = ""
    /\ \E j \in 1..Len(errors) : errors[j].provider = "groq"
    /\ \A k \in 1..Len(httpCalls) : httpCalls[k].provider # "groq"
    /\ Len(httpCalls) >= 1

\* C6: every call eventually completes, also when a provider never answers.
C6_BoundedAttempts == <>(pc \in {"returned", "threw", "responded"})

\* C7 as stated: no run holds HTTP calls to two different providers.
C7_AtMostOneProviderCalled ==
    Cardinality({httpCalls[k].provider : k \in 1..Len(httpCalls)}) <= 1

\* C7 amended: the HTTP calls of one request are strictly sequential, each to a
\* later list position than the one before, and every call but the last one has
\* failed and is recorded; a call that succeeds is the last one.
C7_SequentialCalls ==
    /\ \A k \in 1..Len(httpCalls) :
           /\ k < Len(httpCalls) => httpCalls[k].index < httpCalls[k + 1].index
           /\ k < Len(httpCalls) => httpCalls[k].index <= Len(errors)
    /\ ProviderAnswered => httpCalls[Len(httpCalls)].index = Len(errors) + 1
    /\ net = "pending" => httpCalls[Len(httpCalls)].index = Len(errors) + 1

\* two different providers were called over the network and the second one answered
C7_Witness ==
    /\ Len(httpCalls) = 2
    /\ httpCalls[1].provider # httpCalls[2].provider
    /\ ProviderAnswered

\* C8: in every successful convert-figma response usedFallback is true, and
\* aiUsed false, exactly when the document came from a rule-based generator.
C8_FlagReflectsPath ==
    (response.sent /\ response.status = 200)
        => /\ response.usedFallback <=> response.mjml.origin \in RuleBased
           /\ response.aiUsed <=> ~response.usedFallback

\* C9: a Figma conversion that ends with a rule-based document has first
\* attempted every provider of the documented chain: with no OpenAI key but a
\* Groq or Cohere key, that provider is attempted before the fallback is used.
C9_DocumentedOrder ==
    (entry = "figma" /\ response.sent /\ response.status = 200
     /\ response.mjml.origin \in RuleBased)
        => /\ env.GROQ_API_KEY # "" => Includes(attempts, "groq")
           /\ env.COHERE_API_KEY # "" => Includes(attempts, "cohere")

\* C10: for every layoutData whose first layout is well-formed, the synthesizer
\* returns success = true with a non-empty document and does not throw.
C10_SynthesisTotal ==
    (pc # "start" /\ HasLayout)
        => /\ result.state = "returned"
           /\ result.value.success = TRUE
           /\ Len(result.value.mjml.tokens) > 0
           /\ result.value.mjml.tokens[1] = Open("mjml", <<>>)

\* a frame at the upper size boundary, with no backgroundColor and no element
\* list, was synthesized
C10_Witness ==
    /\ entry = "synth" /\ result.state = "returned"
    /\ ~Has(layoutData.layouts[1], "elements")
    /\ ~Has(layoutData.layouts[1], "backgroundColor")
    /\ layoutData.layouts[1].width = 10000

\* C11: the layout type of the analysis is 'rich-content' exactly when text,
\* images and colored sections are all present; otherwise 'text-focused'
\* exactly when text and colored sections are present; otherwise
\* 'image-focused' exactly when images are present; otherwise 'minimal'.  It
\* is never 'unknown'.
C11_ClassificationPriority ==
    (entry = "synth" /\ result.state = "returned")
        => LET a == result.value.analysis
               rich == a.hasText /\ a.hasImages /\ a.hasColoredSections
               textual == a.hasText /\ a.hasColoredSections
           IN  /\ a.layoutType # "unknown"
               /\ a.layoutType = "rich-content" <=> rich
               /\ a.layoutType = "text-focused" <=> (~rich /\ textual)
               /\ a.layoutType = "image-focused" <=> (~rich /\ ~textual /\ a.hasImages)
               /\ a.layoutType = "minimal" <=> (~rich /\ ~textual /\ ~a.hasImages)

\* a layout holding a text, an image and a colored box was classified, and the
\* header of its document carries the rich-content subtitle
C11_Witness ==
    /\ entry = "synth" /\ result.state = "returned"
    /\ result.value.analysis.hasText /\ result.value.analysis.hasImages
    /\ result.value.analysis.hasColoredSections
    /\ result.value.analysis.layoutType = "rich-content"
    /\ \E k \in 1..Len(result.value.mjml.tokens) :
           result.value.mjml.tokens[k] = Txt("Rich content email with 1 text sections")

\* the validator has returned a report for mjmlText
Validated == entry = "validator" /\ pc \in {"validated", "revalidated"}

\* C12: validating a text that the validator has already corrected records no
\* warnings and returns the text unchanged, also when a single mj-text tag
\* carried border-radius more than once.
C12_ValidatorIdempotence ==
    (entry = "validator" /\ pc = "revalidated")
        => /\ validation.warnings = <<>>
           /\ validation.correctedMjml = mjmlText

\* the positions of seg at which a two-value shorthand padding="Npx Mpx" starts
ShorthandsAt(seg) ==
    {p \in 1..Len(seg) :
        /\ StartsWithAt(seg, p, "padding=\"")
        /\ IndexFrom(seg, "\"", p + 9) # 0
        /\ IsPxPair(SubSeq(seg, p + 9, IndexFrom(seg, "\"", p + 9) - 1))}

\* the four attributes that stand for the shorthand starting at p: N is the
\* first pixel value and M the second one, whatever whitespace separates them
ExpectedSides(seg, p) ==
    LET val == SubSeq(seg, p + 9, IndexFrom(seg, "\"", p + 9) - 1)
        n == SubSeq(val, 1, RunEnd(val, 1, Digits) + 2)
        m == SubSeq(val, RunEnd(val, Len(n) + 1, Whitespace) + 1, Len(val))
    IN  "padding-top=\"" \o n \o "\" padding-right=\"" \o m
        \o "\" padding-bottom=\"" \o n \o "\" padding-left=\"" \o m \o "\""

RECURSIVE SumOf(_)
SumOf(ns) == IF Len(ns) = 0 THEN 0 ELSE ns[1] + SumOf(Tail(ns))

WarningsOfType(t) == SelectSeq(validation.warnings, LAMBDA w : w.type = t)

\* C13: every two-value shorthand padding="Npx Mpx" of the text is replaced, in
\* its tag, by padding-top="Npx" padding-right="Mpx" padding-bottom="Npx"
\* padding-left="Mpx"; one warning is recorded for each rewrite; and no
\* two-value shorthand remains in the corrected text.
C13_PaddingRewrite ==
    Validated
        => /\ \A k \in 1..Len(mjmlText) : \A p \in ShorthandsAt(mjmlText[k]) :
                  StrIncludes(validation.correctedMjml[k], ExpectedSides(mjmlText[k], p))
           /\ Len(WarningsOfType("padding-format"))
                  = SumOf([k \in 1..Len(mjmlText) |-> Cardinality(ShorthandsAt(mjmlText[k]))])
           /\ \A k \in 1..Len(validation.correctedMjml) :
                  ShorthandsAt(validation.correctedMjml[k]) = {}

\* the positions of seg at which an attribute called name starts
AttrsAt(seg, name) ==
    {p \in 2..Len(seg) :
        CharAt(seg, p - 1) \in Whitespace /\ StartsWithAt(seg, p, name \o "=\"")}

IsTag(seg, tag) ==
    /\ StartsWithAt(seg, 1, "<" \o tag)
    /\ CharAt(seg, Len(tag) + 2) \in Whitespace \cup {">", "/"}

\* C14: after validation every mj-image tag that had no alt attribute has
\* exactly one, alt="Image", and one 'missing-attribute' warning is recorded
\* for each such tag; every mj-image tag that had an alt attribute is
\* unchanged and has no warning.
C14_AltInjection ==
    Validated
        => /\ \A k \in 1..Len(mjmlText) :
                  IsTag(mjmlText[k], "mj-image")
                      => IF AttrsAt(mjmlText[k], "alt") = {}
                         THEN /\ Cardinality(AttrsAt(validation.correctedMjml[k], "alt")) = 1
                              /\ StrIncludes(validation.correctedMjml[k], " alt=\"Image\"")
                         ELSE validation.correctedMjml[k] = mjmlText[k]
           /\ Len(WarningsOfType("missing-attribute"))
                  = Cardinality({k \in 1..Len(mjmlText) :
                                    IsTag(mjmlText[k], "mj-image") /\ AttrsAt(mjmlText[k], "alt") = {}})

\* the value of the attribute that starts at position p of seg
AttrValueAt(seg, p) ==
    LET open == IndexFrom(seg, "\"", p)
    IN  SubSeq(seg, open + 1, IndexFrom(seg, "\"", open + 1) - 1)

\* the attributes of a tag other than border-radius and the padding
\* attributes, as written
OtherAttrs(seg) ==
    {SubSeq(seg, p, IndexFrom(seg, "\"", IndexFrom(seg, "=\"", p) + 2)) :
        p \in {q \in 2..Len(seg) :
                  /\ CharAt(seg, q - 1) \in Whitespace
                  /\ IndexFrom(seg, "=\"", q) # 0
                  /\ IndexFrom(seg, "\"", IndexFrom(seg, "=\"", q) + 2) # 0
                  /\ \A m \in q..(IndexFrom(seg, "=\"", q) - 1) :
                         CharAt(seg, m) \notin Whitespace \cup {"\"", "/", ">"}
                  /\ ~StartsWithAt(seg, q, "border-radius=")
                  /\ ~StartsWithAt(seg, q, "padding")}}

\* C15: after validation no mj-text opening tag carries border-radius; each
\* removal is recorded as a warning that names the removed value; the other
\* attributes of the tag are preserved; and border-radius on other components
\* is left as it was.
C15_BorderRadiusStripped ==
    Validated
        => /\ \A k \in 1..Len(mjmlText) :
                  IF IsTag(mjmlText[k], "mj-text")
                  THEN /\ AttrsAt(validation.correctedMjml[k], "border-radius") = {}
                       /\ OtherAttrs(validation.correctedMjml[k]) = OtherAttrs(mjmlText[k])
                       /\ \A p \in AttrsAt(mjmlText[k], "border-radius") :
                              \E j \in 1..Len(validation.warnings) :
                                  validation.warnings[j]
                                      = [type |-> "invalid-attribute",
                                         message |-> "border-radius is not valid on mj-text. Use CSS classes or mj-wrapper instead.",
                                         fix |-> "Removed border-radius=\"" \o AttrValueAt(mjmlText[k], p)
                                                 \o "\" from mj-text"]
                  ELSE \A p \in AttrsAt(mjmlText[k], "border-radius") :
                          StrIncludes(validation.correctedMjml[k],
                                      "border-radius=\"" \o AttrValueAt(mjmlText[k], p) \o "\"")
           /\ Len(WarningsOfType("invalid-attribute"))
                  = SumOf([k \in 1..Len(mjmlText) |->
                              IF IsTag(mjmlText[k], "mj-text")
                              THEN Cardinality(AttrsAt(mjmlText[k], "border-radius")) ELSE 0])

\* the number of mj-column elements open after the first n entries of text
RECURSIVE OpenColumns(_, _)
OpenColumns(text, n) ==
    IF n = 0 THEN 0
    ELSE LET d == OpenColumns(text, n - 1) IN
         IF IsTag(text[n], "mj-column") THEN d + 1
         ELSE IF text[n] = "</mj-column>" /\ d > 0 THEN d - 1
         ELSE d

\* an mj-section is opened inside an mj-column that is still open
SectionInsideColumn(text) ==
    \E b \in 1..Len(text) : IsTag(text[b], "mj-section") /\ OpenColumns(text, b - 1) > 0

StructuralErrors == SelectSeq(validation.errors, LAMBDA e : e.type = "structural-error")

\* C16: the validator records a 'structural-error', and isValid is false,
\* exactly when the text holds an mj-section opened inside an mj-column that is
\* still open; a text whose mj-sections are siblings, each with its own
\* mj-columns, has no error and isValid = true.
C16_StructuralErrorIffNested ==
    Validated
        => /\ Len(StructuralErrors) > 0 <=> SectionInsideColumn(mjmlText)
           /\ validation.isValid <=> ~SectionInsideColumn(mjmlText)

\* C17: within a conversion request the mjml compiler is never invoked on the
\* generated document before validateAndCorrectMJML has processed it: every
\* invocation is the one of compileMJML, and the text it is given is the
\* validator's correctedMjml.
C17_CompileAfterValidation ==
    (entry = "figma" /\ pc = "responded")
        => \A k \in 1..Len(mjmlCalls) :
               /\ mjmlCalls[k].by = "compileMJML"
               /\ mjmlCalls[k].text = validation.correctedMjml

\* C18: when the validator records a structural error, compileMJML still
\* compiles the corrected document, and the validator's error is among the
\* errors returned to the caller, hence in the response's validation.errors.
C18_ValidationErrorsReported ==
    (entry = "figma" /\ pc = "responded" /\ response.status = 200
     /\ Len(validation.errors) > 0)
        => /\ mjmlCalls[Len(mjmlCalls)].text = validation.correctedMjml
           /\ response.html = Html(validation.correctedMjml)
           /\ \A k \in 1..Len(validation.errors) :
                  Includes(response.validation.errors, validation.errors[k])

\* the layout the synthesizer was given, and the same layout without its
\* invisible elements
PrimaryLayout == layoutData.layouts[1]
VisibleLayout ==
    IF Has(PrimaryLayout, "elements")
    THEN [PrimaryLayout EXCEPT !.elements = VisibleElements(@)]
    ELSE PrimaryLayout

TextsIn(doc) == {doc.tokens[k].text : k \in {j \in 1..Len(doc.tokens) : doc.tokens[j].k = "text"}}

\* C19: invisible elements (visible = false) take no part in synthesis: the
\* analysis of a layout, its layoutType and the text blocks rendered by the
\* enhanced synthesizer are those of the layout without its invisible
\* elements, and the basic fallback renders no invisible element.
C19_InvisibleElementsExcluded ==
    (entry = "synth" /\ result.state = "returned")
        => LET a == result.value.analysis
               v == analyzeLayoutElements(VisibleLayout)
           IN  /\ a.layoutType = v.layoutType
               /\ a.textElements = v.textElements
               /\ a.imageElements = v.imageElements
               /\ a.coloredElements = v.coloredElements
               /\ "Hidden" \notin TextsIn(result.value.mjml)
               /\ "Hidden" \notin TextsIn(generateFallbackMJML(layoutData))

\* C20: for a layout with elements = [] the enhanced synthesizer produces a
\* document whose body holds a generic fallback text block saying that no
\* specific elements were found, as the basic fallback does with
\* 'Content from <name>'.
C20_EmptyLayoutGenericBlock ==
    (entry = "synth" /\ result.state = "returned"
     /\ Has(PrimaryLayout, "elements") /\ Len(PrimaryLayout.elements) = 0)
        => \E t \in TextsIn(result.value.mjml) :
               \/ StrIncludes(t, "o specific elements")
               \/ StrIncludes(t, "Content from ")
               \/ StrIncludes(t, "generated from your Figma frame")

\* the elements of the layout given to the synthesizer
PrimaryElements == LayoutElements(PrimaryLayout)

\* does a come before b top to bottom: smaller bounds.y, or the same bounds.y
\* and smaller bounds.x
Above(a, b) ==
    \/ a.bounds.y < b.bounds.y
    \/ a.bounds.y = b.bounds.y /\ a.bounds.x < b.bounds.x

\* the elements of s, all carrying bounds, in ascending (y, x) order, entries
\* equal in both keeping their input order
RECURSIVE TopToBottom(_)
TopToBottom(s) ==
    IF Len(s) = 0 THEN <<>>
    ELSE LET first == CHOOSE k \in 1..Len(s) :
                          /\ \A j \in 1..Len(s) : ~Above(s[j], s[k])
                          /\ \A j \in 1..(k - 1) : Above(s[k], s[j])
         IN  <<s[first]>> \o TopToBottom(SubSeq(s, 1, first - 1) \o SubSeq(s, first + 1, Len(s)))

AllCarryBounds(s) == \A k \in 1..Len(s) : Has(s[k], "bounds")

\* C21: when the elements of a layout carry bounds, both synthesizers render
\* them in ascending bounds.y order, ascending bounds.x breaking ties,
\* whatever their order in the input list: the text blocks of the enhanced
\* synthesizer and the element blocks of the basic fallback are those of the
\* list put top to bottom.
C21_TopToBottomOrder ==
    (entry = "synth" /\ result.state = "returned"
     /\ Len(PrimaryElements) > 0 /\ AllCarryBounds(PrimaryElements))
        => /\ result.value.analysis.textElements
                = analyzeLayoutElements([elements |-> TopToBottom(PrimaryElements)]).textElements
           /\ generateElementsFromLayout(PrimaryElements)
                = RenderElements(TopToBottom(VisibleElements(PrimaryElements)), 1)

\* the TEXT elements of a list, in input order
TextElementsOf(s) == SelectSeq(s, LAMBDA el : el.type = "TEXT")

\* the value of attribute `name` of a tag token ("" when the tag has none)
TokenAttr(t, name) ==
    LET ks == {k \in 1..Len(t.attrs) : t.attrs[k][1] = name}
    IN  IF ks = {} THEN "" ELSE t.attrs[MinOf(ks)][2]

\* does doc hold an <mj-text> block of the given font size and weight around text
HasTextBlock(doc, size, weight, text) ==
    \E j \in 1..(Len(doc.tokens) - 1) :
        /\ doc.tokens[j].k = "open" /\ doc.tokens[j].tag = "mj-text"
        /\ TokenAttr(doc.tokens[j], "font-size") = size
        /\ TokenAttr(doc.tokens[j], "font-weight") = weight
        /\ doc.tokens[j + 1] = Txt(text)

\* C22: a TEXT element with no fontSize is rendered with font-size 14px and
\* one with no fontWeight as weight 400 (not bold) on both synthesizer paths,
\* generateTextElement and analyzeLayoutElements / generateIntelligentMJML,
\* and a missing numeric field never makes the synthesizer throw.
C22_NumericDefaults ==
    (entry = "synth" /\ pc # "start" /\ HasLayout)
        => /\ result.state = "returned"
           /\ LET texts == TextElementsOf(PrimaryElements)
                  a == result.value.analysis
              IN  \A k \in 1..Len(texts) :
                      /\ ~Has(texts[k], "fontSize")
                            => /\ TokenAttr(generateTextElement(texts[k])[1], "font-size") = "14px"
                               /\ a.textElements[k].fontSize = 14
                      /\ ~Has(texts[k], "fontWeight")
                            => /\ TokenAttr(generateTextElement(texts[k])[1], "font-weight") = "normal"
                               /\ a.textElements[k].weight = 400
                      /\ (k <= 3 /\ ~Has(texts[k], "fontSize") /\ ~Has(texts[k], "fontWeight"))
                            => HasTextBlock(result.value.mjml, "14px", "400", a.textElements[k].text)

\* the RECTANGLE and FRAME elements of a list that have a backgroundColor
\* other than 'transparent', in input order
ColoredBoxesOf(s) ==
    SelectSeq(s, LAMBDA el : /\ el.type \in {"RECTANGLE", "FRAME"}
                             /\ StrOr(el, "backgroundColor", "") # ""
                             /\ el.backgroundColor # "transparent")

\* the distinct background colors of a list of elements, by first occurrence
RECURSIVE DistinctColors(_)
DistinctColors(s) ==
    IF Len(s) = 0 THEN <<>>
    ELSE LET before == DistinctColors(SubSeq(s, 1, Len(s) - 1))
             c == s[Len(s)].backgroundColor
         IN  IF Includes(before, c) THEN before ELSE Append(before, c)

\* C23: every RECTANGLE / FRAME element with a non-transparent
\* backgroundColor sets hasColoredSections and is appended to
\* coloredElements, primaryColors is exactly the distinct such colors in
\* order of first occurrence, and every RECTANGLE / FRAME element with an
\* image reference sets hasImages.
C23_ColoredSectionAnalysis ==
    (entry = "synth" /\ result.state = "returned")
        => LET a == result.value.analysis
               colored == ColoredBoxesOf(PrimaryElements)
           IN  /\ Len(colored) > 0 => a.hasColoredSections
               /\ a.coloredElements = colored
               /\ a.primaryColors = DistinctColors(colored)
               /\ (\E k \in 1..Len(PrimaryElements) :
                       /\ PrimaryElements[k].type \in {"RECTANGLE", "FRAME"}
                       /\ Has(PrimaryElements[k], "hasImage") /\ PrimaryElements[k].hasImage)
                     => a.hasImages

\* the failure recorded for the k-th HTTP request: failures are recorded in
\* list order, one for every provider before the one that answers
FailureOfCall(k) == errors[httpCalls[k].index]

\* C24: whenever a provider responds with a non-2xx status, the error thrown
\* by the adapter and recorded by the orchestrator contains the HTTP status
\* code, whether or not the body of the error response is parseable JSON.
C24_StatusInErrorMessage ==
    \A k \in 1..Len(settled) :
        (settled[k].kind # "network_error" /\ settled[k].status \notin 200..299)
            => /\ httpCalls[k].index <= Len(errors)
               /\ FailureOfCall(k).provider = httpCalls[k].provider
               /\ StrIncludes(FailureOfCall(k).error, ToString(settled[k].status))

\* the content of the first fenced block tagged mjml of an answer: from after
\* the newline that ends the opening fence to before the newline of the
\* closing fence
TaggedBlock(s) ==
    LET p == IndexFrom(s, Fence \o "mjml\n", 1)
        q == IF p = 0 THEN 0 ELSE IndexFrom(s, "\n" \o Fence, p + 8)
    IN  [found |-> q # 0, content |-> IF q = 0 THEN "" ELSE SubSeq(s, p + 8, q - 1)]

\* the span from the opening root tag, <mjml> or <mjml followed by
\* attributes, to the last </mjml>
RootSpan(s) ==
    LET as == {k \in 1..Len(s) : \/ StartsWithAt(s, k, "<mjml>")
                                  \/ StartsWithAt(s, k, "<mjml ")}
        a == IF as = {} THEN 0 ELSE MinOf(as)
        b == IF a = 0 THEN 0 ELSE LastIndexFrom(s, "</mjml>", a + 5)
    IN  [found |-> b # 0, span |-> IF b = 0 THEN "" ELSE SubSeq(s, a, b + 6)]

\* what the extraction priority gives for an answer
ExpectedExtraction(s) ==
    IF TaggedBlock(s).found THEN TaggedBlock(s).content
    ELSE IF RootSpan(s).found THEN RootSpan(s).span
    ELSE s

\* C25: extractMJMLFromResponse returns the content of the fenced block
\* tagged mjml when the answer holds one, without the fence markers;
\* otherwise the span from the opening <mjml ...> root tag to the last
\* </mjml> when there is one; otherwise the whole answer.  Surrounding
\* white space is not counted.
C25_ExtractionPriority ==
    (entry = "extract" /\ extracted.state = "done")
        => /\ Trim(extracted.multi) = Trim(ExpectedExtraction(responseText))
           /\ Trim(extracted.ai) = Trim(ExpectedExtraction(responseText))
           /\ TaggedBlock(responseText).found
                => /\ ~StrIncludes(extracted.multi, Fence)
                   /\ ~StrIncludes(extracted.ai, Fence)

\* C26: for every layout, the document returned by
\* generateEnhancedFallbackMJML passes validateAndCorrectMJML with isValid =
\* true, no warnings, and a corrected text equal to the text given: the
\* synthesizer emits nothing that the validator rewrites or flags.
C26_SynthesizerOutputClean ==
    (entry = "synth" /\ result.state = "returned")
        => LET text == DocText(result.value.mjml)
               v == validateAndCorrectMJML(text)
           IN  /\ v.isValid
               /\ Len(v.warnings) = 0
               /\ v.correctedMjml = text

\* is the tag written self-closing, <... />
SelfClosing(seg) == Len(seg) >= 2 /\ SubSeq(seg, Len(seg) - 1, Len(seg)) = "/>"

\* C27: alt injection keeps the tag well formed: for every mj-image tag that
\* has no alt attribute, self-closing tags included, the tag in correctedMjml
\* is a tag of the same kind and the injected alt attribute stands among the
\* attributes, before the closing '/>' or '>', never after the '/'.
C27_AltInjectionWellFormed ==
    Validated
        => \A k \in 1..Len(mjmlText) :
               (IsTag(mjmlText[k], "mj-image") /\ AttrsAt(mjmlText[k], "alt") = {})
                   => LET tag == validation.correctedMjml[k]
                      IN  /\ IsTag(tag, "mj-image")
                          /\ SelfClosing(tag) <=> SelfClosing(mjmlText[k])
                          /\ \A p \in AttrsAt(tag, "alt") :
                                 /\ IndexFrom(tag, "\"", p + 5) < Len(tag)
                                 /\ ~StartsWithAt(tag, p - 2, "/ ")

\* C28: in every successful response the mjml field is the text that was
\* handed to the MJML compiler to produce the html field: the corrected
\* document whenever the validator changed anything.
C28_ReportedIsCompiled ==
    (entry = "figma" /\ response.sent /\ response.status = 200)
        => /\ response.html = Html(DocText(response.mjml))
           /\ mjmlCalls[Len(mjmlCalls)].by = "compileMJML"
           /\ mjmlCalls[Len(mjmlCalls)].text = DocText(response.mjml)

\* C29: in every successful convert-image response, usedFallback is false and
\* metadata.aiUsed is true whenever both the image analysis and the MJML
\* generation were answered by the AI provider, and usedFallback is true
\* only when one of the two steps fell back.
C29_ImageFlagReflectsPath ==
    (entry = "image" /\ response.sent /\ response.status = 200)
        => /\ (imageRun.analysisByAI /\ imageRun.generationByAI)
                 => (response.usedFallback = FALSE /\ response.metadata.aiUsed = TRUE)
           /\ response.usedFallback = TRUE
                 => (~imageRun.analysisByAI \/ ~imageRun.generationByAI)

\* C30: once the upload has been parsed to a temporary file, the file is
\* deleted before the handler sends its response, on every path: the 200,
\* the 400 of the image validation, the 500 of the compilation, and the
\* catch block.  An unlink that the file system refuses counts as done.
C30_UploadCleanup ==
    (entry = "image" /\ response.sent /\ upload # "none")
        => (upload = "deleted" \/ (Has(imageRun, "cleanup") /\ imageRun.cleanup = "failed"))

====
